---- MODULE Spec2Model ----
(***************************************************************************)
(* A model of dature's multi-source loading core: the deep-merge engine,   *)
(* the conflict detector, the field-group validator and the five           *)
(* source-location scanners (JSON, JSON5, INI, TOML, YAML).                *)
(*                                                                         *)
(* JSON values are records [k, m, v]: k is the Python type ("dict", "int", *)
(* "list"), m the key -> value function of a dict and v the payload of a   *)
(* non-dict (a sequence of integers), so that == of two Python values is   *)
(* equality of the two records.  Python dicts keep insertion order; the    *)
(* model iterates keys in the fixed order KeyOrder.                        *)
(***************************************************************************)
EXTENDS Integers, Sequences, FiniteSets, TLC

VARIABLES
    raw_dicts,        \* _LoadedSources.raw_dicts: the parsed tree of every loaded source
    source_ctxs,      \* _LoadedSources.source_ctxs: (ErrorContext, file_content) per loaded source
    strategy,         \* MergeMetadata.strategy
    field_merge_map,  \* build_field_merge_map(...): dotted path -> FieldMergeStrategy
    pc,               \* position inside _load_and_merge
    step_idx,         \* loop index of _merge_raw_dicts (0-based)
    merged,           \* the accumulated tree of _merge_raw_dicts
    error,            \* the exception raised by the load, NoError while none
    result,           \* the value bound onto the target record, Unbound while none
    field_group_paths,\* build_field_group_paths(...): the resolved groups, each a tuple of paths
    field_origins,    \* FieldGroupContext.field_origins: path -> index of the source that last set it
    field_groups,     \* MergeMetadata.field_groups: the declared groups, each a tuple of field paths
    dataclass_,       \* the target record type: its fields in declaration order, each with its type
    format,           \* the format tag that selected the PathFinder class
    content,          \* the raw text handed to the finder, one character per element
    layout,           \* how the text was laid out: the entries it was built from
    finder,           \* the finder's fields: _current_section, _in_multiline, _stack
    target_path,      \* the argument of the latest find_line_range call
    located,          \* what that call returned
    queries,          \* how many find_line_range calls the finder has served
    cursor,           \* the locals of CharPathFinder.find_line_range while its loop runs: pos, line, stack, last_key
    error_ctx,        \* the ErrorContext of the source an error is attributed to
    error_path,       \* the path of the field the error is about
    error_content,    \* the raw text of that source, None when there is none
    location,         \* the SourceLocation resolve_source_location returned
    source_metas,          \* MergeMetadata.sources: per source its skip_if_broken and what load_raw does
    skip_broken_sources, \* MergeMetadata.skip_broken_sources
    loop_idx,       \* how many sources the loop of load_sources has gone through
    diagnostic_reads, \* the read_file_content calls of the load: which source, and whether an error had been detected
    patch_ctx,        \* _PatchContext / _MergePatchContext: cache, cached_data, loading, validating, original_post_init
    file_,            \* what the source file holds now
    calls,            \* the new_init calls in progress, innermost last
    raising,          \* an exception is propagating through calls
    instance,         \* what the latest construction by the program gave
    constructions,    \* how many constructions the program has started
    loads,            \* how many times the sources have been loaded
    first_loaded,     \* the data of the first load that succeeded
    heap,             \* the objects of the interpreter, by address: a dict maps its keys to addresses, a list holds addresses
    loaded_heap,      \* the heap as load_sources left it: the objects of the source trees
    raw_refs,         \* the address of the tree of every loaded source
    merged_ref        \* the address of the accumulated tree of _merge_raw_dicts

loadVars == <<raw_dicts, source_ctxs, strategy, field_merge_map, pc, step_idx, merged, error, result>>
groupVars == <<field_group_paths, field_origins, field_groups, dataclass_>>
scanVars == <<format, content, layout, finder, target_path, located, queries, cursor>>
locVars == <<error_ctx, error_path, error_content, location>>
metaVars == <<source_metas, skip_broken_sources, loop_idx, diagnostic_reads>>
patchVars == <<patch_ctx, file_, calls, raising, instance, constructions, loads, first_loaded>>
heapVars == <<heap, loaded_heap, raw_refs, merged_ref>>
vars == <<loadVars, groupVars, scanVars, locVars, metaVars, patchVars, heapVars>>

(***************************************************************************)
(* Bounds                                                                  *)
(***************************************************************************)
MaxSources == 3

(***************************************************************************)
(* JSON values                                                             *)
(***************************************************************************)
IntV(n) == [k |-> "int", m |-> <<>>, v |-> <<n>>]
ListV(s) == [k |-> "list", m |-> <<>>, v |-> s]
DictV(f) == [k |-> "dict", m |-> f, v |-> <<>>]
EmptyDict == DictV(<<>>)
SENTINEL == [k |-> "sentinel", m |-> <<>>, v |-> <<>>]
TypeErrorV(base, override) == [k |-> "TypeError", m |-> <<>>, v |-> <<>>, base_type |-> base.k, override_type |-> override.k]

StrV(s) == [k |-> "str", m |-> <<>>, v |-> s]
BoolV(b) == [k |-> "bool", m |-> <<>>, v |-> <<IF b THEN 1 ELSE 0>>]
NoneV == [k |-> "NoneType", m |-> <<>>, v |-> <<>>]

\* isinstance(x, types): bool is a subclass of int
isinstance(x, types) == x.k \in types \/ (x.k = "bool" /\ "int" \in types)
isinstance_dict(x) == x.k = "dict"
isinstance_list(x) == x.k = "list"
IsTypeError(x) == x.k = "TypeError"

KeyOrder == <<"a", "b">>
Keys == {KeyOrder[i] : i \in 1..Len(KeyOrder)}

\* the keys of dict d in iteration order
RECURSIVE FilterSeq(_, _)
FilterSeq(s, S) ==
    IF s = <<>> THEN <<>>
    ELSE IF Head(s) \in S THEN <<Head(s)>> \o FilterSeq(Tail(s), S)
    ELSE FilterSeq(Tail(s), S)

items(d) == FilterSeq(KeyOrder, DOMAIN d.m)

\* the dotted path string of a list of segments; keys hold no "."
Dotted(path) == path

(***************************************************************************)
(* deep_merge.py: field strategies                                         *)
(***************************************************************************)
RECURSIVE deduplicate_from(_, _)
deduplicate_from(items_, seen) ==
    IF items_ = <<>> THEN seen
    ELSE IF \E i \in 1..Len(seen) : seen[i] = Head(items_)
         THEN deduplicate_from(Tail(items_), seen)
         ELSE deduplicate_from(Tail(items_), Append(seen, Head(items_)))

deduplicate_list(items_) == deduplicate_from(items_, <<>>)

ensure_both_lists(base, override) == isinstance_list(base) /\ isinstance_list(override)

\* mutant: the _UNIQUE variants keep the duplicates
apply_list_merge_keeps_duplicates(base, override, strat) ==
    IF ~ensure_both_lists(base, override) THEN TypeErrorV(base, override)
    ELSE IF strat \in {"APPEND", "APPEND_UNIQUE"} THEN ListV(base.v \o override.v)
    ELSE ListV(override.v \o base.v)

apply_list_merge(base, override, strat) ==
    IF ~ensure_both_lists(base, override) THEN TypeErrorV(base, override)
    ELSE IF strat = "APPEND" THEN ListV(base.v \o override.v)
    ELSE IF strat = "APPEND_UNIQUE" THEN ListV(deduplicate_list(base.v \o override.v))
    ELSE IF strat = "PREPEND" THEN ListV(override.v \o base.v)
    ELSE ListV(deduplicate_list(override.v \o base.v))

COMPARABLE == {"int", "float", "str"}

\* s < t for the payloads of two strings (lexicographic) or two numbers
RECURSIVE lex_less(_, _)
lex_less(s, t) ==
    IF t = <<>> THEN FALSE
    ELSE IF s = <<>> THEN TRUE
    ELSE IF Head(s) # Head(t) THEN Head(s) < Head(t)
    ELSE lex_less(Tail(s), Tail(t))

\* the TypeError of Python's own comparison: '>' not supported between
\* instances of the two types
unorderable(x, y) == (x.k = "str") # (y.k = "str")

apply_field_merge(base, override, strat) ==
    IF strat = "FIRST_WINS" THEN base
    ELSE IF strat = "LAST_WINS" THEN override
    ELSE IF strat \in {"APPEND", "APPEND_UNIQUE", "PREPEND", "PREPEND_UNIQUE"}
         THEN apply_list_merge(base, override, strat)
    ELSE IF ~(isinstance(base, COMPARABLE) /\ isinstance(override, COMPARABLE)) THEN TypeErrorV(base, override)
    ELSE IF unorderable(override, base) THEN TypeErrorV(base, override)
    ELSE IF strat = "MAX" THEN (IF lex_less(base.v, override.v) THEN override ELSE base)
    ELSE (IF lex_less(override.v, base.v) THEN override ELSE base)

\* mutant: only the rules of top-level keys are looked up
has_field_rule_top_level_only(fmm, path) == Len(path) = 1 /\ Dotted(path) \in DOMAIN fmm

\* field_merge_map is not None and field_path in field_merge_map
has_field_rule(fmm, path) == Dotted(path) \in DOMAIN fmm

(***************************************************************************)
(* deep_merge.py: the two folds.  A TypeError raised below a key aborts    *)
(* the whole merge: the first failing key in iteration order decides.      *)
(***************************************************************************)
RECURSIVE deep_merge_last_wins(_, _, _, _)
deep_merge_last_wins(base, override, fmm, path) ==
    IF has_field_rule(fmm, path)
    THEN apply_field_merge(base, override, fmm[Dotted(path)])
    ELSE IF isinstance_dict(base) /\ isinstance_dict(override)
    THEN LET res == [key \in DOMAIN base.m \cup DOMAIN override.m |->
                        IF key \notin DOMAIN override.m THEN base.m[key]
                        ELSE IF key \in DOMAIN base.m
                             THEN deep_merge_last_wins(base.m[key], override.m[key], fmm, Append(path, key))
                             ELSE override.m[key]]
             raised == FilterSeq(items(override), {key \in DOMAIN res : IsTypeError(res[key])})
         IN  IF raised # <<>> THEN res[Head(raised)] ELSE DictV(res)
    ELSE override

\* mutant: the FIRST_WINS fold dispatched to the LAST_WINS fold
deep_merge_first_wins_as_last(base, override, fmm, path) == deep_merge_last_wins(base, override, fmm, path)

RECURSIVE deep_merge_first_wins(_, _, _, _)
deep_merge_first_wins(base, override, fmm, path) ==
    IF has_field_rule(fmm, path)
    THEN apply_field_merge(base, override, fmm[Dotted(path)])
    ELSE IF isinstance_dict(base) /\ isinstance_dict(override)
    THEN LET res == [key \in DOMAIN base.m \cup DOMAIN override.m |->
                        IF key \notin DOMAIN override.m THEN base.m[key]
                        ELSE IF key \in DOMAIN base.m
                             THEN deep_merge_first_wins(base.m[key], override.m[key], fmm, Append(path, key))
                             ELSE override.m[key]]
             raised == FilterSeq(items(override), {key \in DOMAIN res : IsTypeError(res[key])})
         IN  IF raised # <<>> THEN res[Head(raised)] ELSE DictV(res)
    ELSE base

\* deep_merge is only called with LAST_WINS or FIRST_WINS (merge.py:123-126)
deep_merge(base, override, strat, fmm) ==
    IF strat = "LAST_WINS" THEN deep_merge_last_wins(base, override, fmm, <<>>)
    ELSE deep_merge_first_wins(base, override, fmm, <<>>)

(***************************************************************************)
(* deep_merge.py: conflict detection.  A conflict is [path, sources], and  *)
(* sources the (i, value) pairs of enumerate(dicts), i 0-based.            *)
(***************************************************************************)
MIN_CONFLICT_SOURCES == 2

RECURSIVE key_sources_from(_, _, _)
key_sources_from(dicts, key, i) ==
    IF i > Len(dicts) THEN <<>>
    ELSE (IF isinstance_dict(dicts[i]) /\ key \in DOMAIN dicts[i].m
          THEN <<[idx |-> i - 1, value |-> dicts[i].m[key]]>>
          ELSE <<>>) \o key_sources_from(dicts, key, i + 1)

key_sources(dicts, key) == key_sources_from(dicts, key, 1)

values_of(sources) == [j \in 1..Len(sources) |-> sources[j].value]

\* mutant: only the second value is compared with the first
all_equal_second_only(values) == values[2] = values[1]

\* all(v == values[0] for v in values[1:])
all_equal(values) == \A j \in 2..Len(values) : values[j] = values[1]

RECURSIVE collect_conflicts(_, _, _)
RECURSIVE collect_conflicts_keys(_, _, _, _)
collect_conflicts_keys(dicts, path, fmm, keys) ==
    IF keys = <<>> THEN <<>>
    ELSE LET key == Head(keys)
             sources == key_sources(dicts, key)
             values == values_of(sources)
             here ==
                 IF Len(sources) < MIN_CONFLICT_SOURCES THEN <<>>
                 ELSE IF has_field_rule(fmm, Append(path, key)) THEN <<>>
                 ELSE IF \A j \in 1..Len(values) : isinstance_dict(values[j])
                      THEN collect_conflicts(values, Append(path, key), fmm)
                 ELSE IF all_equal(values) THEN <<>>
                 ELSE <<[path |-> Append(path, key), sources |-> sources]>>
         IN  here \o collect_conflicts_keys(dicts, path, fmm, Tail(keys))

collect_conflicts(dicts, path, fmm) ==
    collect_conflicts_keys(dicts, path, fmm,
        FilterSeq(KeyOrder, UNION {DOMAIN dicts[i].m : i \in {j \in 1..Len(dicts) : isinstance_dict(dicts[j])}}))

\* resolve_source_location is a function of the path, the context and the
\* raw text it is handed: a location names the three
resolve_source_location(field_path, ctx, file_content) ==
    [path |-> field_path, ctx |-> ctx, content |-> file_content]

\* mutant: the error is raised on the first conflict found
raise_on_conflict_first_only(dicts, source_ctxs_, fmm) ==
    LET conflicts == collect_conflicts(dicts, <<>>, fmm)
    IN  [c \in 1..(IF conflicts = <<>> THEN 0 ELSE 1) |->
            [field_path |-> conflicts[c].path,
             locations |-> [j \in 1..Len(conflicts[c].sources) |->
                 LET source_idx == conflicts[c].sources[j].idx
                 IN  resolve_source_location(conflicts[c].path,
                         source_ctxs_[source_idx + 1].ctx, source_ctxs_[source_idx + 1].content)]]]

\* the MergeConflictFieldError list of raise_on_conflict, <<>> when it returns
raise_on_conflict(dicts, source_ctxs_, fmm) ==
    LET conflicts == collect_conflicts(dicts, <<>>, fmm)
    IN  [c \in 1..Len(conflicts) |->
            [field_path |-> conflicts[c].path,
             locations |-> [j \in 1..Len(conflicts[c].sources) |->
                 LET source_idx == conflicts[c].sources[j].idx
                 IN  resolve_source_location(conflicts[c].path,
                         source_ctxs_[source_idx + 1].ctx, source_ctxs_[source_idx + 1].content)]]]

(***************************************************************************)
(* merge.py: _load_and_merge, from the state _load_sources leaves          *)
(***************************************************************************)
NoError == [kind |-> "none", errors |-> <<>>]
Unbound == SENTINEL

a_values == {IntV(1), EmptyDict, DictV("b" :> IntV(1)), DictV("b" :> IntV(2))}
b_values == {IntV(1), ListV(<<1>>)}

\* the parsed trees a source may hold
Trees ==
    {DictV(f) : f \in
        {<<>>} \cup {("a" :> x) : x \in a_values} \cup {("b" :> y) : y \in b_values}
        \cup {("a" :> x) @@ ("b" :> y) : x \in a_values, y \in b_values}}

FieldMergeMaps ==
    {<<>>, (<<"a">> :> "LAST_WINS"), (<<"a", "b">> :> "FIRST_WINS"), (<<"b">> :> "APPEND")}

SourceLists == UNION {[1..n -> Trees] : n \in 1..MaxSources}

\* source i of merge_meta.sources has the context and the raw text numbered i
ContextsOf(dicts) == [i \in 1..Len(dicts) |-> [ctx |-> i - 1, content |-> i - 1]]

InitLoad(strategies) ==
    /\ raw_dicts \in SourceLists
    /\ source_ctxs = ContextsOf(raw_dicts)
    /\ strategy \in strategies
    /\ field_merge_map \in FieldMergeMaps
    /\ pc = "loaded"
    /\ step_idx = 0
    /\ merged = EmptyDict
    /\ error = NoError
    /\ result = Unbound

NoGroups ==
    /\ field_group_paths = <<>>
    /\ field_origins = <<>>
    /\ field_groups = <<>>
    /\ dataclass_ = <<>>

\* no finder has been built: a finder is built only to report an error
NoScan ==
    /\ format = "none"
    /\ content = <<>>
    /\ layout = <<>>
    /\ finder = [current_section |-> <<>>, in_multiline |-> <<"None">>, stack |-> <<>>]
    /\ target_path = <<>>
    /\ located = [found |-> FALSE, start |-> 0, end |-> 0]
    /\ queries = 0
    /\ cursor = <<>>

\* load_sources has returned: no source is left to load
NoSources ==
    /\ source_metas = <<>>
    /\ skip_broken_sources = FALSE
    /\ loop_idx = 0
    /\ diagnostic_reads = <<>>

\* no class has been decorated
NoPatch ==
    /\ patch_ctx = <<>>
    /\ file_ = 0
    /\ calls = <<>>
    /\ raising = FALSE
    /\ instance = <<>>
    /\ constructions = 0
    /\ loads = 0
    /\ first_loaded = <<>>

\* the trees are taken as values: no object is told from an equal one
NoHeap ==
    /\ heap = <<>>
    /\ loaded_heap = <<>>
    /\ raw_refs = <<>>
    /\ merged_ref = 0

\* no error has been attributed to a source
NoLocation ==
    /\ error_ctx = <<>>
    /\ error_path = <<>>
    /\ error_content = <<>>
    /\ location = <<>>

Init == InitLoad({"LAST_WINS", "FIRST_WINS", "RAISE_ON_CONFLICT"}) /\ NoGroups /\ NoScan /\ NoLocation /\ NoSources /\ NoPatch /\ NoHeap

\* merge.py:275-276
RaiseOnConflict ==
    /\ pc = "loaded"
    /\ strategy = "RAISE_ON_CONFLICT"
    /\ LET conflict_errors == raise_on_conflict(raw_dicts, source_ctxs, field_merge_map)
       IN  IF conflict_errors = <<>>
           THEN /\ pc' = "merging"
                /\ error' = error
           ELSE /\ pc' = "failed"
                /\ error' = [kind |-> "MergeConflictError", errors |-> conflict_errors]
    /\ UNCHANGED <<raw_dicts, source_ctxs, strategy, field_merge_map, step_idx, merged, result>>
    /\ UNCHANGED <<groupVars, scanVars, locVars, metaVars, patchVars, heapVars>>

\* mutant: the iteration drops the source and keeps the accumulated tree
merge_step_keeps_acc(acc, raw, strat, fmm) == acc

\* one iteration of the loop of _merge_raw_dicts (merge.py:121-135)
merge_step(acc, raw, strat, fmm) ==
    IF strat = "RAISE_ON_CONFLICT" THEN deep_merge_last_wins(acc, raw, fmm, <<>>)
    ELSE deep_merge(acc, raw, strat, fmm)

MergeStep ==
    /\ \/ pc = "merging"
       \/ pc = "loaded" /\ strategy # "RAISE_ON_CONFLICT"
    /\ step_idx < Len(raw_dicts)
    /\ LET after == merge_step(merged, raw_dicts[step_idx + 1], strategy, field_merge_map)
       IN  IF IsTypeError(after)
           THEN /\ pc' = "failed"
                /\ error' = [kind |-> "TypeError", errors |-> <<after>>]
                /\ UNCHANGED <<merged, step_idx>>
           ELSE /\ pc' = "merging"
                /\ merged' = after
                /\ step_idx' = step_idx + 1
                /\ error' = error
    /\ UNCHANGED <<raw_dicts, source_ctxs, strategy, field_merge_map, result>>
    /\ UNCHANGED <<groupVars, scanVars, locVars, metaVars, patchVars, heapVars>>

\* transform_to_dataclass is the external structural mapper: it binds the
\* merged tree or raises (merge.py:315-329)
Transform ==
    /\ \/ pc = "merging"
       \/ pc = "loaded" /\ strategy # "RAISE_ON_CONFLICT"
    /\ step_idx = Len(raw_dicts)
    /\ \/ /\ pc' = "done"
          /\ result' = merged
          /\ error' = error
       \/ /\ pc' = "failed"
          /\ error' = [kind |-> "DatureConfigError", errors |-> <<>>]
          /\ result' = result
    /\ UNCHANGED <<raw_dicts, source_ctxs, strategy, field_merge_map, step_idx, merged>>
    /\ UNCHANGED <<groupVars, scanVars, locVars, metaVars, patchVars, heapVars>>

Next == RaiseOnConflict \/ MergeStep \/ Transform

Spec == Init /\ [][Next]_vars

(***************************************************************************)
(* The same load with a per-field strategy on every kind of value: the     *)
(* sources of a case hold, at the ruled paths, lists, numbers, strings, a  *)
(* boolean, null and a map.                                                *)
(***************************************************************************)
FieldValues ==
    {ListV(<<1>>), ListV(<<1, 2>>), ListV(<<2, 2>>), IntV(1), IntV(2),
     StrV(<<1>>), StrV(<<1, 2>>), BoolV(TRUE), NoneV, EmptyDict}

FieldMergeStrategy ==
    {"FIRST_WINS", "LAST_WINS", "APPEND", "APPEND_UNIQUE", "PREPEND", "PREPEND_UNIQUE", "MAX", "MIN"}

\* a case is a field-merge map and the trees its sources are drawn from
FieldCases ==
    {[fmm |-> (<<"b">> :> strat), trees |-> {EmptyDict} \cup {DictV("b" :> x) : x \in FieldValues}] :
        strat \in FieldMergeStrategy}
    \cup {[fmm |-> (<<"a">> :> "APPEND") @@ (<<"b">> :> "MAX"),
           trees |-> {DictV(("a" :> x) @@ ("b" :> y)) : x, y \in {IntV(1), ListV(<<1>>)}}]}
    \cup {[fmm |-> f,
           trees |-> {EmptyDict, DictV("a" :> DictV("a" :> IntV(1))), DictV("a" :> DictV("b" :> IntV(1))),
                      DictV("a" :> DictV("b" :> IntV(2))), DictV("a" :> IntV(1))}] :
        f \in {(<<"a">> :> "LAST_WINS"), (<<"a">> :> "FIRST_WINS"),
               (<<"a">> :> "LAST_WINS") @@ (<<"a", "b">> :> "FIRST_WINS"),
               (<<"a">> :> "FIRST_WINS") @@ (<<"a", "b">> :> "MAX"),
               (<<"a", "b">> :> "LAST_WINS")}}

InitField ==
    /\ \E case \in FieldCases :
          /\ field_merge_map = case.fmm
          /\ raw_dicts \in UNION {[1..n -> case.trees] : n \in 1..MaxSources}
    /\ source_ctxs = ContextsOf(raw_dicts)
    /\ strategy \in {"LAST_WINS", "FIRST_WINS", "RAISE_ON_CONFLICT"}
    /\ pc = "loaded"
    /\ step_idx = 0
    /\ merged = EmptyDict
    /\ error = NoError
    /\ result = Unbound
    /\ NoGroups
    /\ NoScan
    /\ NoLocation
    /\ NoSources /\ NoPatch /\ NoHeap

SpecField == InitField /\ [][Next]_vars

(***************************************************************************)
(* field_group.py: validate_field_groups.  A source is named by its index  *)
(* (ctx.source_reprs[i] is i) and the text "none" by NONE_REPR.            *)
(***************************************************************************)
NONE_REPR == 0 - 1

\* dot_path.split(".") is the path itself
RECURSIVE get_nested_value(_, _)
get_nested_value(data, parts) ==
    IF ~isinstance_dict(data) THEN SENTINEL
    ELSE IF parts = <<>> THEN data
    ELSE IF Head(parts) \notin DOMAIN data.m THEN SENTINEL
    ELSE IF Len(parts) = 1 THEN data.m[Head(parts)]
    ELSE get_nested_value(data.m[Head(parts)], Tail(parts))

origin_of(origins, path, default) == IF path \in DOMAIN origins THEN origins[path] ELSE default

\* mutant: a path the source lacks is compared like any other value
source_changes_absent_too(base, source, path) ==
    get_nested_value(source, path) # get_nested_value(base, path)

\* the source has a value at path and it differs from the base's (field_group.py:47-65)
source_changes(base, source, path) ==
    /\ get_nested_value(source, path) # SENTINEL
    /\ get_nested_value(source, path) # get_nested_value(base, path)

\* the four lists one group's loop fills (field_group.py:41-68)
RECURSIVE classify_paths(_, _, _, _, _)
classify_paths(paths, base, source, source_index, origins) ==
    IF paths = <<>>
    THEN [changed |-> <<>>, changed_sources |-> <<>>, unchanged |-> <<>>, unchanged_sources |-> <<>>]
    ELSE LET path == Head(paths)
             rest == classify_paths(Tail(paths), base, source, source_index, origins)
         IN  IF source_changes(base, source, path)
             THEN [rest EXCEPT !.changed = <<path>> \o @, !.changed_sources = <<source_index>> \o @]
             ELSE [rest EXCEPT !.unchanged = <<path>> \o @,
                               !.unchanged_sources =
                                   <<origin_of(origins, path,
                                        IF get_nested_value(source, path) = SENTINEL
                                        THEN NONE_REPR ELSE source_index)>> \o @]

\* the FieldGroupViolationError list; FieldGroupError is raised when it is not empty
RECURSIVE validate_field_groups(_, _, _, _, _)
validate_field_groups(base, source, groups, source_index, origins) ==
    IF groups = <<>> THEN <<>>
    ELSE LET c == classify_paths(Head(groups), base, source, source_index, origins)
         IN  (IF c.changed # <<>> /\ c.unchanged # <<>>
              THEN <<[group_fields |-> Head(groups),
                      changed_fields |-> c.changed,
                      unchanged_fields |-> c.unchanged,
                      changed_sources |-> c.changed_sources,
                      unchanged_sources |-> c.unchanged_sources,
                      source_index |-> source_index]>>
              ELSE <<>>)
             \o validate_field_groups(base, source, Tail(groups), source_index, origins)

(***************************************************************************)
(* The loop that applies the sources under field groups.  Its code is not  *)
(* in the repository snapshot; it follows the design text: each source is  *)
(* validated against the merged-so-far tree, then folded, and field        *)
(* origins name the source that last set each leaf.                        *)
(***************************************************************************)
RECURSIVE leaf_paths(_, _)
leaf_paths(t, prefix) ==
    IF ~isinstance_dict(t) THEN {prefix}
    ELSE UNION {leaf_paths(t.m[key], Append(prefix, key)) : key \in DOMAIN t.m}

next_origins(origins, before, after, source, source_index) ==
    LET set_here == {q \in leaf_paths(source, <<>>) :
                        get_nested_value(after, q) = get_nested_value(source, q)
                        /\ (q \notin DOMAIN origins \/ get_nested_value(before, q) # get_nested_value(after, q))}
    IN  [q \in DOMAIN origins \cup set_here |-> IF q \in set_here THEN source_index ELSE origins[q]]

GroupHostPort == <<<<"a", "b">>, <<"b">>>>
GroupUserPassword == <<<<"a">>, <<"b">>>>
FieldGroupChoices == {<<GroupHostPort>>, <<GroupUserPassword>>, <<GroupHostPort, GroupUserPassword>>}

\* a type is a record type with its fields in declaration order, or any
\* other type (a scalar, an optional record)
Scalar == [dc |-> FALSE, fields |-> <<>>]
Dataclass(fs) == [dc |-> TRUE, fields |-> fs]
Field(name, type) == [name |-> name, type |-> type]
is_dataclass(type) == type.dc

\* hints[part] of a record type; Scalar stands for "part not in hints"
hint(type, part) ==
    IF \E i \in 1..Len(type.fields) : type.fields[i].name = part
    THEN type.fields[CHOOSE i \in 1..Len(type.fields) : type.fields[i].name = part].type
    ELSE Scalar

\* the record type at the end of the field chain; Scalar stands for None
RECURSIVE resolve_field_type(_, _)
resolve_field_type(owner, parts) ==
    IF parts = <<>> THEN (IF is_dataclass(owner) THEN owner ELSE Scalar)
    ELSE IF ~is_dataclass(owner) THEN Scalar
    ELSE resolve_field_type(hint(owner, Head(parts)), Tail(parts))

RECURSIVE expand_dataclass_fields(_, _)
RECURSIVE expand_fields_from(_, _, _)
expand_fields_from(prefix, dc_type, i) ==
    IF i > Len(dc_type.fields) THEN <<>>
    ELSE LET f == dc_type.fields[i]
             child_path == Append(prefix, f.name)
         IN  (IF is_dataclass(f.type) THEN expand_dataclass_fields(child_path, f.type) ELSE <<child_path>>)
             \o expand_fields_from(prefix, dc_type, i + 1)

\* mutant: nested record types are not entered
expand_dataclass_fields_one_level(prefix, dc_type) ==
    [i \in 1..Len(dc_type.fields) |-> Append(prefix, dc_type.fields[i].name)]

expand_dataclass_fields(prefix, dc_type) == expand_fields_from(prefix, dc_type, 1)

RECURSIVE group_paths_from(_, _, _)
group_paths_from(fields, owner, i) ==
    IF i > Len(fields) THEN <<>>
    ELSE LET path == fields[i]
             resolved_type == resolve_field_type(owner, path)
         IN  (IF is_dataclass(resolved_type) THEN expand_dataclass_fields(path, resolved_type) ELSE <<path>>)
             \o group_paths_from(fields, owner, i + 1)

build_field_group_paths(groups, owner) ==
    [g \in 1..Len(groups) |-> group_paths_from(groups[g], owner, 1)]

\* record types: both keys scalar or optional; a a record of two scalars;
\* a a record holding a scalar and then a record
Flat == Dataclass(<<Field("a", Scalar), Field("b", Scalar)>>)
Nested == Dataclass(<<Field("a", Dataclass(<<Field("a", Scalar), Field("b", Scalar)>>)), Field("b", Scalar)>>)
Deep ==
    Dataclass(<<Field("a", Dataclass(<<Field("b", Scalar),
                                       Field("a", Dataclass(<<Field("b", Scalar), Field("a", Scalar)>>))>>))>>)

NestedTrees ==
    {EmptyDict, DictV("a" :> DictV("b" :> IntV(2)))}
    \cup {DictV(("a" :> DictV(("a" :> IntV(x)) @@ ("b" :> IntV(y)))) @@ ("b" :> IntV(y))) :
            x \in {1, 2}, y \in {1, 2}}

DeepTrees ==
    {DictV("a" :> DictV(("b" :> IntV(x)) @@ ("a" :> DictV(("a" :> IntV(y)) @@ ("b" :> IntV(x)))))) :
        x \in {1, 2}, y \in {1, 2}}

\* a case is a record type, the groups that may be declared on it and the
\* trees its sources are drawn from
GroupCases ==
    {[schema |-> Flat, groups |-> FieldGroupChoices, trees |-> Trees],
     [schema |-> Nested, groups |-> {<<<<<<"a">>, <<"b">>>>>>, <<<<<<"a">>>>>>}, trees |-> NestedTrees],
     [schema |-> Deep, groups |-> {<<<<<<"a">>>>>>, <<<<<<"a", "a">>, <<"a", "b">>>>>>}, trees |-> DeepTrees]}

InitGroups ==
    /\ \E case \in GroupCases :
          /\ dataclass_ = case.schema
          /\ raw_dicts \in UNION {[1..n -> case.trees] : n \in 1..MaxSources}
          /\ field_groups \in case.groups
    /\ source_ctxs = ContextsOf(raw_dicts)
    /\ strategy \in {"LAST_WINS", "FIRST_WINS"}
    /\ field_merge_map = <<>>
    /\ pc = "groups"
    /\ step_idx = 0
    /\ merged = EmptyDict
    /\ error = NoError
    /\ result = Unbound
    /\ field_group_paths = build_field_group_paths(field_groups, dataclass_)
    /\ field_origins = <<>>
    /\ NoScan
    /\ NoLocation
    /\ NoSources /\ NoPatch /\ NoHeap

ValidateAndMerge ==
    /\ pc = "groups"
    /\ step_idx < Len(raw_dicts)
    /\ LET source == raw_dicts[step_idx + 1]
           violations == validate_field_groups(merged, source, field_group_paths, step_idx, field_origins)
           after == merge_step(merged, source, strategy, field_merge_map)
       IN  IF violations # <<>>
           THEN /\ pc' = "failed"
                /\ error' = [kind |-> "FieldGroupError", errors |-> violations]
                /\ UNCHANGED <<merged, step_idx, field_origins>>
           ELSE /\ merged' = after
                /\ field_origins' = next_origins(field_origins, merged, after, source, step_idx)
                /\ step_idx' = step_idx + 1
                /\ UNCHANGED <<pc, error>>
    /\ UNCHANGED <<raw_dicts, source_ctxs, strategy, field_merge_map, result, field_group_paths, scanVars>>
    /\ UNCHANGED <<field_groups, dataclass_, locVars, metaVars, patchVars, heapVars>>

GroupsDone ==
    /\ pc = "groups"
    /\ step_idx = Len(raw_dicts)
    /\ pc' = "done"
    /\ result' = merged
    /\ UNCHANGED <<raw_dicts, source_ctxs, strategy, field_merge_map, step_idx, merged, error, groupVars, scanVars, locVars, metaVars, patchVars, heapVars>>

NextGroups == ValidateAndMerge \/ GroupsDone

SpecGroups == InitGroups /\ [][NextGroups]_vars

(***************************************************************************)
(* source_locators: texts.  A Python str is a sequence of one-character    *)
(* strings; positions are 0-based as in the code, At reads content[pos].   *)
(* None is a value no text equals.                                         *)
(***************************************************************************)
None == <<"None">>

At(s, pos) == s[pos + 1]

\* s[a:b]
Slice(s, a, b) == IF b <= a THEN <<>> ELSE SubSeq(s, a + 1, IF b > Len(s) THEN Len(s) ELSE b)

Alpha == {"a", "b", "c", "d", "e", "f", "g", "h", "i", "j", "k", "l", "m",
          "n", "o", "p", "q", "r", "s", "t", "u", "v", "w", "x", "y", "z"}
Digits == {"0", "1", "2", "3", "4", "5", "6", "7", "8", "9"}

\* str(n) of an array index
str(n) ==
    IF n < 0 THEN <<"-", "1">>
    ELSE <<CASE n = 0 -> "0" [] n = 1 -> "1" [] n = 2 -> "2" [] n = 3 -> "3" [] n = 4 -> "4"
             [] n = 5 -> "5" [] n = 6 -> "6" [] n = 7 -> "7" [] n = 8 -> "8" [] OTHER -> "9">>

(***************************************************************************)
(* char_base.py: CharPathFinder                                            *)
(***************************************************************************)
StackEntry(key, is_array, array_index) == [key |-> key, is_array |-> is_array, array_index |-> array_index]

PosLine(pos, line) == [some |-> TRUE, pos |-> pos, line |-> line]
NoPosLine == [some |-> FALSE, pos |-> 0, line |-> 0]

\* the stack rides along because _try_parse_key updates it in place
KeyParseResult(pos, line, last_key, found, stack) ==
    [some |-> TRUE, pos |-> pos, line |-> line, last_key |-> last_key, found |-> found, stack |-> stack]
NoKeyParse == [some |-> FALSE, pos |-> 0, line |-> 0, last_key |-> None, found |-> FALSE, stack |-> <<>>]

LineRange(start, end) == [start |-> start, end |-> end]

\* mutant: no value consumes an index
increment_parent_array_never(stack) == stack

increment_parent_array(stack) ==
    IF stack # <<>> /\ stack[Len(stack)].is_array
    THEN [stack EXCEPT ![Len(stack)].array_index = @ + 1]
    ELSE stack

RECURSIVE build_path_from(_, _)
build_path_from(stack, i) ==
    IF i > Len(stack) THEN <<>>
    ELSE (IF stack[i].key # None THEN <<stack[i].key>> ELSE <<>>)
         \o (IF stack[i].is_array THEN <<str(stack[i].array_index)>> ELSE <<>>)
         \o build_path_from(stack, i + 1)

build_path(stack, current_key) == Append(build_path_from(stack, 1), current_key)

\* mutant: the scalar is not skipped
skip_scalar_stays(s, pos, length) == pos

RECURSIVE skip_scalar(_, _, _)
skip_scalar(s, pos, length) ==
    IF pos < length /\ At(s, pos) \notin {" ", "\t", "\r", "\n", ",", "}", "]"}
    THEN skip_scalar(s, pos + 1, length)
    ELSE pos

(***************************************************************************)
(* json_.py: JsonPathFinder                                                *)
(***************************************************************************)
json_skip_noise(s, pos, line, length) ==
    IF pos >= length THEN NoPosLine
    ELSE IF At(s, pos) \in {" ", "\t", "\r", "\n"}
         THEN PosLine(pos + 1, IF At(s, pos) = "\n" THEN line + 1 ELSE line)
    ELSE IF At(s, pos) = "," THEN PosLine(pos + 1, line)
    ELSE NoPosLine

RECURSIVE skip_string(_, _)
skip_string(s, pos) ==
    IF pos >= Len(s) THEN pos
    ELSE IF At(s, pos) = "\\" THEN skip_string(s, pos + 2)
    ELSE IF At(s, pos) = "\"" THEN pos + 1
    ELSE skip_string(s, pos + 1)

\* _skip_ws returns a position only: the newlines it passes are not counted
RECURSIVE skip_ws(_, _, _)
skip_ws(s, pos, length) ==
    IF pos < length /\ At(s, pos) \in {" ", "\t", "\r", "\n"}
    THEN skip_ws(s, pos + 1, length)
    ELSE pos

json_try_parse_key(s, pos, line, length, stack, target) ==
    IF At(s, pos) # "\"" THEN NoKeyParse
    ELSE LET string_start == pos + 1
             end_pos == skip_string(s, string_start)
             string_value == Slice(s, string_start, end_pos - 1)
             colon_pos == skip_ws(s, end_pos, length)
         IN  IF colon_pos >= length \/ At(s, colon_pos) # ":"
             THEN KeyParseResult(end_pos, line, None, FALSE, increment_parent_array(stack))
             ELSE IF build_path(stack, string_value) = target
             THEN KeyParseResult(end_pos, line, None, TRUE, stack)
             ELSE KeyParseResult(colon_pos + 1, line, string_value, FALSE, stack)

RECURSIVE skip_to_colon(_, _, _, _)
skip_to_colon(s, pos, length, current_line) ==
    IF pos < length /\ At(s, pos) # ":"
    THEN skip_to_colon(s, pos + 1, length, IF At(s, pos) = "\n" THEN current_line + 1 ELSE current_line)
    ELSE PosLine(pos, current_line)

RECURSIVE skip_ws_counting(_, _, _, _)
skip_ws_counting(s, pos, length, current_line) ==
    IF pos < length /\ At(s, pos) \in {" ", "\t", "\r", "\n"}
    THEN skip_ws_counting(s, pos + 1, length, IF At(s, pos) = "\n" THEN current_line + 1 ELSE current_line)
    ELSE PosLine(pos, current_line)

skip_to_value_start(s, pos, length, current_line) ==
    LET colon == skip_to_colon(s, pos, length, current_line)
    IN  IF colon.pos >= length THEN colon
        ELSE skip_ws_counting(s, colon.pos + 1, length, colon.line)

RECURSIVE scan_container_loop(_, _, _, _, _)
scan_container_loop(s, pos, length, current_line, depth) ==
    IF ~(pos < length /\ depth > 0) THEN current_line
    ELSE LET c == At(s, pos)
         IN  IF c = "\n" THEN scan_container_loop(s, pos + 1, length, current_line + 1, depth)
             ELSE IF c = "\"" THEN scan_container_loop(s, skip_string(s, pos + 1), length, current_line, depth)
             ELSE IF c \in {"{", "["} THEN scan_container_loop(s, pos + 1, length, current_line, depth + 1)
             ELSE IF c \in {"}", "]"} THEN scan_container_loop(s, pos + 1, length, current_line, depth - 1)
             ELSE scan_container_loop(s, pos + 1, length, current_line, depth)

scan_container_end(s, pos, length, current_line) == scan_container_loop(s, pos + 1, length, current_line, 1)

json_find_value_end_line(s, pos, length, start_line) ==
    LET v == skip_to_value_start(s, pos, length, start_line)
    IN  IF v.pos >= length THEN v.line
        ELSE IF At(s, v.pos) = "\"" THEN v.line
        ELSE IF At(s, v.pos) \in {"{", "["} THEN scan_container_end(s, v.pos, length, v.line)
        ELSE v.line

(***************************************************************************)
(* json5_.py: Json5PathFinder                                              *)
(***************************************************************************)
RECURSIVE skip_quoted_string(_, _, _, _)
skip_quoted_string(s, pos, quote, line) ==
    IF pos >= Len(s) THEN PosLine(pos, line)
    ELSE IF At(s, pos) = "\\"
         THEN skip_quoted_string(s, pos + 2, quote,
                  IF pos + 1 < Len(s) /\ At(s, pos + 1) = "\n" THEN line + 1 ELSE line)
    ELSE IF At(s, pos) = "\n" THEN skip_quoted_string(s, pos + 1, quote, line + 1)
    ELSE IF At(s, pos) = quote THEN PosLine(pos + 1, line)
    ELSE skip_quoted_string(s, pos + 1, quote, line)

is_ident_start(ch) == ch \in Alpha \/ ch \in {"_", "$"}
is_ident_char(ch) == ch \in Alpha \/ ch \in Digits \/ ch \in {"_", "$"}

RECURSIVE skip_identifier(_, _, _)
skip_identifier(s, pos, length) ==
    IF pos < length /\ is_ident_char(At(s, pos)) THEN skip_identifier(s, pos + 1, length) ELSE pos

RECURSIVE skip_line_comment(_, _, _)
skip_line_comment(s, pos, length) ==
    IF pos < length /\ At(s, pos) # "\n" THEN skip_line_comment(s, pos + 1, length) ELSE pos

RECURSIVE skip_block_comment(_, _, _, _)
skip_block_comment(s, pos, length, line) ==
    IF pos >= length THEN PosLine(pos, line)
    ELSE IF At(s, pos) = "\n" THEN skip_block_comment(s, pos + 1, length, line + 1)
    ELSE IF At(s, pos) = "*" /\ pos + 1 < length /\ At(s, pos + 1) = "/" THEN PosLine(pos + 2, line)
    ELSE skip_block_comment(s, pos + 1, length, line)

RECURSIVE skip_ws_and_comments(_, _, _, _)
skip_ws_and_comments(s, pos, length, line) ==
    IF pos >= length THEN PosLine(pos, line)
    ELSE IF At(s, pos) \in {" ", "\t", "\r"} THEN skip_ws_and_comments(s, pos + 1, length, line)
    ELSE IF At(s, pos) = "\n" THEN skip_ws_and_comments(s, pos + 1, length, line + 1)
    ELSE IF At(s, pos) = "/" /\ pos + 1 < length /\ At(s, pos + 1) = "/"
         THEN skip_ws_and_comments(s, skip_line_comment(s, pos + 2, length), length, line)
    ELSE IF At(s, pos) = "/" /\ pos + 1 < length /\ At(s, pos + 1) = "*"
         THEN LET block == skip_block_comment(s, pos + 2, length, line)
              IN  skip_ws_and_comments(s, block.pos, length, block.line)
    ELSE PosLine(pos, line)

json5_skip_noise(s, pos, line, length) ==
    IF At(s, pos) \in {" ", "\t", "\r", "\n"}
    THEN PosLine(pos + 1, IF At(s, pos) = "\n" THEN line + 1 ELSE line)
    ELSE IF At(s, pos) = "," THEN PosLine(pos + 1, line)
    ELSE IF At(s, pos) # "/" \/ pos + 1 >= length THEN NoPosLine
    ELSE IF At(s, pos + 1) = "/" THEN PosLine(skip_line_comment(s, pos + 2, length), line)
    ELSE IF At(s, pos + 1) = "*" THEN skip_block_comment(s, pos + 2, length, line)
    ELSE NoPosLine

handle_quoted(s, pos, line, length, stack, target) ==
    LET quote == At(s, pos)
        string_start == pos + 1
        end == skip_quoted_string(s, string_start, quote, line)
        string_value == Slice(s, string_start, end.pos - 1)
        colon == skip_ws_and_comments(s, end.pos, length, end.line)
    IN  IF colon.pos >= length \/ At(s, colon.pos) # ":"
        THEN KeyParseResult(end.pos, end.line, None, FALSE, increment_parent_array(stack))
        ELSE IF build_path(stack, string_value) = target
        THEN KeyParseResult(end.pos, line, None, TRUE, stack)
        ELSE KeyParseResult(colon.pos + 1, colon.line, string_value, FALSE, stack)

handle_identifier(s, pos, line, length, stack, target) ==
    LET ident_end == skip_identifier(s, pos, length)
        ident == Slice(s, pos, ident_end)
        colon == skip_ws_and_comments(s, ident_end, length, line)
    IN  IF colon.pos >= length \/ At(s, colon.pos) # ":"
        THEN KeyParseResult(ident_end, line, None, FALSE, increment_parent_array(stack))
        ELSE IF build_path(stack, ident) = target
        THEN KeyParseResult(ident_end, line, None, TRUE, stack)
        ELSE KeyParseResult(colon.pos + 1, colon.line, ident, FALSE, stack)

json5_try_parse_key(s, pos, line, length, stack, target) ==
    IF At(s, pos) \in {"\"", "'"} THEN handle_quoted(s, pos, line, length, stack, target)
    ELSE IF is_ident_start(At(s, pos)) THEN handle_identifier(s, pos, line, length, stack, target)
    ELSE NoKeyParse

RECURSIVE scan_json5_container_loop(_, _, _, _, _)
scan_json5_container_loop(s, pos, length, current_line, depth) ==
    IF ~(pos < length /\ depth > 0) THEN current_line
    ELSE LET c == At(s, pos)
         IN  IF c = "\n" THEN scan_json5_container_loop(s, pos + 1, length, current_line + 1, depth)
             ELSE IF c \in {"\"", "'"}
                  THEN LET end == skip_quoted_string(s, pos + 1, c, current_line)
                       IN  scan_json5_container_loop(s, end.pos, length, end.line, depth)
             ELSE IF c = "/" /\ pos + 1 < length /\ At(s, pos + 1) = "/"
                  THEN scan_json5_container_loop(s, skip_line_comment(s, pos + 2, length), length, current_line, depth)
             ELSE IF c = "/" /\ pos + 1 < length /\ At(s, pos + 1) = "*"
                  THEN LET block == skip_block_comment(s, pos + 2, length, current_line)
                       IN  scan_json5_container_loop(s, block.pos, length, block.line, depth)
             ELSE IF c = "/" THEN scan_json5_container_loop(s, pos + 1, length, current_line, depth)
             ELSE IF c \in {"{", "["} THEN scan_json5_container_loop(s, pos + 1, length, current_line, depth + 1)
             ELSE IF c \in {"}", "]"} THEN scan_json5_container_loop(s, pos + 1, length, current_line, depth - 1)
             ELSE scan_json5_container_loop(s, pos + 1, length, current_line, depth)

scan_json5_container_end(s, pos, length, current_line) ==
    scan_json5_container_loop(s, pos + 1, length, current_line, 1)

json5_find_value_end_line(s, pos, length, start_line) ==
    LET before == skip_ws_and_comments(s, pos, length, start_line)
    IN  IF before.pos >= length \/ At(s, before.pos) # ":" THEN start_line
        ELSE LET v == skip_ws_and_comments(s, before.pos + 1, length, before.line)
             IN  IF v.pos >= length THEN v.line
                 ELSE IF At(s, v.pos) \in {"\"", "'"}
                      THEN skip_quoted_string(s, v.pos + 1, At(s, v.pos), v.line).line
                 ELSE IF At(s, v.pos) \in {"{", "["} THEN scan_json5_container_end(s, v.pos, length, v.line)
                 ELSE v.line

(***************************************************************************)
(* char_base.py: CharPathFinder.find_line_range, the main loop             *)
(***************************************************************************)
NotFound == [found |-> FALSE, start |-> 0, end |-> 0]
Found(range) == [found |-> TRUE, start |-> range.start, end |-> range.end]

\* find_line_range left by an exception instead of a return
Raised(exception) == [found |-> FALSE, start |-> 0, end |-> 0, raised |-> exception]
IsRaised(outcome) == "raised" \in DOMAIN outcome

skip_noise(fmt, s, pos, line, length) ==
    IF fmt = "json" THEN json_skip_noise(s, pos, line, length) ELSE json5_skip_noise(s, pos, line, length)

try_parse_key(fmt, s, pos, line, length, stack, target) ==
    IF fmt = "json" THEN json_try_parse_key(s, pos, line, length, stack, target)
    ELSE json5_try_parse_key(s, pos, line, length, stack, target)

find_value_end_line(fmt, s, pos, length, start_line) ==
    IF fmt = "json" THEN json_find_value_end_line(s, pos, length, start_line)
    ELSE json5_find_value_end_line(s, pos, length, start_line)

RECURSIVE char_loop(_, _, _, _, _, _, _)
char_loop(fmt, s, pos, line, stack, last_key, target) ==
    LET length == Len(s)
    IN  IF pos >= length THEN NotFound
        ELSE LET ch == At(s, pos)
                 noise == skip_noise(fmt, s, pos, line, length)
             IN  IF noise.some THEN char_loop(fmt, s, noise.pos, noise.line, stack, last_key, target)
                 ELSE IF ch \in {"{", "["}
                 THEN char_loop(fmt, s, pos + 1, line,
                          Append(increment_parent_array(stack), StackEntry(last_key, ch = "[", 0 - 1)),
                          None, target)
                 ELSE IF ch \in {"}", "]"}
                 THEN char_loop(fmt, s, pos + 1, line,
                          IF stack # <<>> THEN SubSeq(stack, 1, Len(stack) - 1) ELSE stack,
                          None, target)
                 ELSE LET parsed == try_parse_key(fmt, s, pos, line, length, stack, target)
                      IN  IF parsed.some
                          THEN IF parsed.found
                               THEN Found(LineRange(parsed.line,
                                        find_value_end_line(fmt, s, parsed.pos, length, parsed.line)))
                               ELSE char_loop(fmt, s, parsed.pos, parsed.line, parsed.stack, parsed.last_key, target)
                          ELSE char_loop(fmt, s, skip_scalar(s, pos, length), line,
                                   increment_parent_array(stack), last_key, target)

char_find_line_range(fmt, s, target) == char_loop(fmt, s, 0, 1, <<>>, None, target)

(***************************************************************************)
(* The str methods the line scanners use                                   *)
(***************************************************************************)
Whitespace == {" ", "\t", "\r", "\n"}

RECURSIVE lstrip_chars(_, _)
lstrip_chars(s, chars) ==
    IF s # <<>> /\ Head(s) \in chars THEN lstrip_chars(Tail(s), chars) ELSE s

RECURSIVE rstrip_chars(_, _)
rstrip_chars(s, chars) ==
    IF s # <<>> /\ s[Len(s)] \in chars THEN rstrip_chars(SubSeq(s, 1, Len(s) - 1), chars) ELSE s

strip_chars(s, chars) == rstrip_chars(lstrip_chars(s, chars), chars)
strip(s) == strip_chars(s, Whitespace)
lstrip(s) == lstrip_chars(s, Whitespace)

startswith(s, chars) == s # <<>> /\ Head(s) \in chars

\* sub in s[i:], for the first position at or after i (1-based); 0 when there is none
RECURSIVE find_from(_, _, _)
find_from(s, sub, i) ==
    IF i + Len(sub) - 1 > Len(s) THEN 0
    ELSE IF SubSeq(s, i, i + Len(sub) - 1) = sub THEN i
    ELSE find_from(s, sub, i + 1)

contains(s, sub) == find_from(s, sub, 1) # 0

\* s.count(sub): occurrences that do not overlap
RECURSIVE count_from(_, _, _)
count_from(s, sub, i) ==
    LET at == find_from(s, sub, i)
    IN  IF at = 0 THEN 0 ELSE 1 + count_from(s, sub, at + Len(sub))

count(s, sub) == count_from(s, sub, 1)

\* s.partition(sep) as [head, sep, tail]; sep is empty when s holds none
partition(s, sep) ==
    LET at == find_from(s, sep, 1)
    IN  IF at = 0 THEN [head |-> s, sep |-> <<>>, tail |-> <<>>]
        ELSE [head |-> SubSeq(s, 1, at - 1), sep |-> sep, tail |-> SubSeq(s, at + Len(sep), Len(s))]

RECURSIVE split(_, _)
split(s, sep) ==
    LET at == find_from(s, sep, 1)
    IN  IF at = 0 THEN <<s>>
        ELSE <<SubSeq(s, 1, at - 1)>> \o split(SubSeq(s, at + Len(sep), Len(s)), sep)

\* content.splitlines(): a final line break opens no further line
RECURSIVE splitlines(_)
splitlines(s) ==
    IF s = <<>> THEN <<>>
    ELSE LET at == find_from(s, <<"\n">>, 1)
         IN  IF at = 0 THEN <<s>>
             ELSE <<SubSeq(s, 1, at - 1)>> \o splitlines(SubSeq(s, at + 1, Len(s)))

RECURSIVE strip_each(_)
strip_each(parts) == IF parts = <<>> THEN <<>> ELSE <<strip(Head(parts))>> \o strip_each(Tail(parts))

(***************************************************************************)
(* line_base.py, ini_.py, toml_.py, yaml_.py.  A finder's fields are the   *)
(* record [current_section, in_multiline, stack]; _process_line returns    *)
(* its result together with the fields as it leaves them.                  *)
(***************************************************************************)
NewFinder == [current_section |-> <<>>, in_multiline |-> None, stack |-> <<>>]

Outcome(range, fields) == [located |-> range, finder |-> fields]

\* ini_.py: the last continuation line after line_num
RECURSIVE ini_continuation_end(_, _, _)
ini_continuation_end(lines, j, end_line) ==
    IF j >= Len(lines) THEN end_line
    ELSE IF lines[j + 1] = <<>> \/ lines[j + 1][1] \notin {" ", "\t"} THEN end_line
    ELSE ini_continuation_end(lines, j + 1, j + 1)

ini_process_line(lines, line_num, line, target, f) ==
    LET target_key == target[Len(target)]    \* target_path[-1]: IndexError on an empty path
        target_parents == SubSeq(target, 1, Len(target) - 1)
        stripped == strip(line)
        sep == IF contains(stripped, <<"=">>) THEN <<"=">> ELSE <<":">>
        key == strip_chars(strip(partition(stripped, sep).head), {"\"", "'"})
    IN  IF target = <<>> THEN Outcome(Raised("IndexError"), f)
        ELSE IF stripped = <<>> \/ startswith(stripped, {"#", ";"}) THEN Outcome(NotFound, f)
        ELSE IF line[1] \in {" ", "\t"} THEN Outcome(NotFound, f)
        ELSE IF startswith(stripped, {"["}) /\ contains(stripped, <<"]">>)
        THEN Outcome(NotFound, [f EXCEPT !.current_section = split(strip_chars(stripped, {"[", "]", " "}), <<".">>)])
        ELSE IF ~contains(stripped, sep) THEN Outcome(NotFound, f)
        ELSE IF key # target_key \/ f.current_section # target_parents THEN Outcome(NotFound, f)
        ELSE Outcome(Found(LineRange(line_num, ini_continuation_end(lines, line_num, line_num))), f)

\* toml_.py
detect_unclosed_multiline(value) ==
    IF contains(value, <<"\"", "\"", "\"">>) /\ count(value, <<"\"", "\"", "\"">>) % 2 = 1
    THEN <<"\"", "\"", "\"">>
    ELSE IF contains(value, <<"'", "'", "'">>) /\ count(value, <<"'", "'", "'">>) % 2 = 1
    THEN <<"'", "'", "'">>
    ELSE None

RECURSIVE find_multiline_string_end(_, _, _, _)
find_multiline_string_end(lines, start_line_1based, delimiter, j) ==
    IF j >= Len(lines) THEN start_line_1based
    ELSE IF contains(lines[j + 1], delimiter) THEN j + 1
    ELSE find_multiline_string_end(lines, start_line_1based, delimiter, j + 1)

ContainerState(depth, in_string) == [depth |-> depth, in_string |-> in_string]

process_container_char(ch, state) ==
    IF state.in_string # None
    THEN IF ch = "\\" THEN state
         ELSE IF <<ch>> = state.in_string THEN [state EXCEPT !.in_string = None]
         ELSE state
    ELSE IF ch \in {"\"", "'"} THEN [state EXCEPT !.in_string = <<ch>>]
    ELSE IF ch \in {"{", "["} THEN [state EXCEPT !.depth = @ + 1]
    ELSE IF ch \in {"}", "]"} THEN [state EXCEPT !.depth = @ - 1]
    ELSE state

RECURSIVE process_container_chars(_, _, _)
process_container_chars(text, i, state) ==
    IF i > Len(text) THEN state
    ELSE process_container_chars(text, i + 1, process_container_char(text[i], state))

RECURSIVE inline_container_scan(_, _, _)
inline_container_scan(lines, j, state) ==
    IF j >= Len(lines) THEN Len(lines)
    ELSE LET after == process_container_chars(lines[j + 1], 1, state)
         IN  IF after.depth = 0 THEN j + 1
             ELSE inline_container_scan(lines, j + 1, after)

find_inline_container_end(lines, line_index, value) ==
    LET state == process_container_chars(value, 1, ContainerState(0, None))
    IN  IF state.depth = 0 THEN line_index + 1
        ELSE inline_container_scan(lines, line_index + 1, state)

toml_process_line(lines, line_num, line, target, f) ==
    LET target_key == target[Len(target)]
        target_parents == SubSeq(target, 1, Len(target) - 1)
        stripped == strip(line)
        parts == partition(stripped, <<"=">>)
        key == strip_chars(strip(parts.head), {"\"", "'"})
        value == strip(parts.tail)
        unclosed == detect_unclosed_multiline(value)
        other == key # target_key \/ f.current_section # target_parents
    IN  IF target = <<>> THEN Outcome(Raised("IndexError"), f)
        ELSE IF f.in_multiline # None
        THEN Outcome(NotFound, IF contains(line, f.in_multiline) THEN [f EXCEPT !.in_multiline = None] ELSE f)
        ELSE IF stripped = <<>> \/ startswith(stripped, {"#", ";"}) THEN Outcome(NotFound, f)
        ELSE IF startswith(stripped, {"["}) /\ contains(stripped, <<"]">>)
        THEN Outcome(NotFound,
                 [f EXCEPT !.current_section = strip_each(split(strip_chars(stripped, {"[", "]", " "}), <<".">>))])
        ELSE IF ~contains(stripped, <<"=">>) THEN Outcome(NotFound, f)
        ELSE IF unclosed # None
        THEN IF other THEN Outcome(NotFound, [f EXCEPT !.in_multiline = unclosed])
             ELSE Outcome(Found(LineRange(line_num, find_multiline_string_end(lines, line_num, unclosed, line_num))), f)
        ELSE IF other THEN Outcome(NotFound, f)
        ELSE Outcome(Found(LineRange(line_num, find_inline_container_end(lines, line_num - 1, value))), f)

\* yaml_.py
RECURSIVE pop_deeper(_, _)
pop_deeper(stack, indent) ==
    IF stack # <<>> /\ stack[Len(stack)].indent >= indent
    THEN pop_deeper(SubSeq(stack, 1, Len(stack) - 1), indent)
    ELSE stack

stack_keys(stack) == [i \in 1..Len(stack) |-> stack[i].key]

BlockIndicators == {<<"|">>, <<">">>, <<"|", "-">>, <<">", "-">>, <<"|", "+">>, <<">", "+">>}

RECURSIVE yaml_block_end(_, _, _, _)
yaml_block_end(lines, j, indent, end_line) ==
    IF j >= Len(lines) THEN end_line
    ELSE LET next_line == lines[j + 1]
             next_stripped == lstrip(next_line)
         IN  IF next_stripped = <<>> \/ startswith(next_stripped, {"#"})
             THEN yaml_block_end(lines, j + 1, indent, end_line)
             ELSE IF Len(next_line) - Len(next_stripped) <= indent THEN end_line
             ELSE yaml_block_end(lines, j + 1, indent, j + 1)

yaml_process_line(lines, line_num, line, target, f) ==
    LET stripped == lstrip(line)
        indent == Len(line) - Len(stripped)
        parts == partition(stripped, <<":">>)
        key == strip_chars(strip(parts.head), {"\"", "'"})
        pushed == Append(pop_deeper(f.stack, indent), [key |-> key, indent |-> indent])
        value == strip(parts.tail)
    IN  IF stripped = <<>> \/ startswith(stripped, {"#", "-"}) THEN Outcome(NotFound, f)
        ELSE IF parts.sep = <<>> THEN Outcome(NotFound, f)
        ELSE IF stack_keys(pushed) # target THEN Outcome(NotFound, [f EXCEPT !.stack = pushed])
        ELSE IF value # <<>> /\ value \notin BlockIndicators
        THEN Outcome(Found(LineRange(line_num, line_num)), [f EXCEPT !.stack = pushed])
        ELSE Outcome(Found(LineRange(line_num, yaml_block_end(lines, line_num, indent, line_num))),
                     [f EXCEPT !.stack = pushed])

process_line(fmt, lines, line_num, line, target, f) ==
    IF fmt = "ini" THEN ini_process_line(lines, line_num, line, target, f)
    ELSE IF fmt = "toml" THEN toml_process_line(lines, line_num, line, target, f)
    ELSE yaml_process_line(lines, line_num, line, target, f)

\* LinePathFinder.find_line_range: the first line whose _process_line answers
RECURSIVE line_loop(_, _, _, _, _)
line_loop(fmt, lines, i, target, f) ==
    IF i > Len(lines) THEN Outcome(NotFound, f)
    ELSE LET out == process_line(fmt, lines, i, lines[i], target, f)
         IN  IF out.located.found \/ IsRaised(out.located) THEN out
             ELSE line_loop(fmt, lines, i + 1, target, out.finder)

line_find_line_range(fmt, s, target, f) == line_loop(fmt, splitlines(s), 1, target, f)

(***************************************************************************)
(* The texts handed to the finders.  A text is laid out from entries of    *)
(* its format's menu; an entry records, beside its text, where its keys    *)
(* stand (path, first and last line of the key's value, counted from the   *)
(* entry's first line), where a key name stands inside a string value, a   *)
(* multi-line value or a comment only (decoys), and the section an INI or  *)
(* TOML header opens.  The texts use "\n" as their only line break.        *)
(***************************************************************************)
MaxEntries == 2
MaxQueries == 2

\* '"a": 1' / '"b"\n: 2' / '"c": {\n"a": 3\n}' / '"d": [\n"a",\n{"a": 4}\n]' / '"s": "\\"a\\": 5"' / '"e": ["]",\n"}"]' / '"u": "x' / '"v": [{'
JsonMenu ==
    {[text |-> <<"\"", "a", "\"", ":", " ", "1">>,
      keys |-> {[path |-> <<<<"a">>>>, line |-> 0, last |-> 0, kind |-> "scalar"]},
      decoys |-> {},
      header |-> FALSE, section |-> <<>>, malformed |-> FALSE],
     [text |-> <<"\"", "b", "\"", "\n", ":", " ", "2">>,
      keys |-> {[path |-> <<<<"b">>>>, line |-> 0, last |-> 1, kind |-> "split"]},
      decoys |-> {},
      header |-> FALSE, section |-> <<>>, malformed |-> FALSE],
     [text |-> <<"\"", "c", "\"", ":", " ", "{", "\n", "\"", "a", "\"", ":", " ", "3", "\n", "}">>,
      keys |-> {[path |-> <<<<"c">>>>, line |-> 0, last |-> 2, kind |-> "container"], [path |-> <<<<"c">>, <<"a">>>>, line |-> 1, last |-> 1, kind |-> "scalar"]},
      decoys |-> {},
      header |-> FALSE, section |-> <<>>, malformed |-> FALSE],
     [text |-> <<"\"", "d", "\"", ":", " ", "[", "\n", "\"", "a", "\"", ",", "\n", "{", "\"", "a", "\"", ":", " ", "4", "}", "\n", "]">>,
      keys |-> {[path |-> <<<<"d">>>>, line |-> 0, last |-> 3, kind |-> "container"], [path |-> <<<<"d">>, <<"1">>, <<"a">>>>, line |-> 2, last |-> 2, kind |-> "scalar"]},
      decoys |-> {[name |-> <<"a">>, line |-> 1, kind |-> "element"]},
      header |-> FALSE, section |-> <<>>, malformed |-> FALSE],
     [text |-> <<"\"", "s", "\"", ":", " ", "\"", "\\", "\"", "a", "\\", "\"", ":", " ", "5", "\"">>,
      keys |-> {[path |-> <<<<"s">>>>, line |-> 0, last |-> 0, kind |-> "scalar"]},
      decoys |-> {[name |-> <<"a">>, line |-> 0, kind |-> "string"]},
      header |-> FALSE, section |-> <<>>, malformed |-> FALSE],
     [text |-> <<"\"", "e", "\"", ":", " ", "[", "\"", "]", "\"", ",", "\n", "\"", "}", "\"", "]">>,
      keys |-> {[path |-> <<<<"e">>>>, line |-> 0, last |-> 1, kind |-> "container"]},
      decoys |-> {},
      header |-> FALSE, section |-> <<>>, malformed |-> FALSE],
     [text |-> <<"\"", "u", "\"", ":", " ", "\"", "x">>,
      keys |-> {},
      decoys |-> {},
      header |-> FALSE, section |-> <<>>, malformed |-> TRUE],
     [text |-> <<"\"", "v", "\"", ":", " ", "[", "{">>,
      keys |-> {},
      decoys |-> {},
      header |-> FALSE, section |-> <<>>, malformed |-> TRUE]}

JsonTargets ==
    {<<>>,
     <<<<"a">>>>,
     <<<<"b">>>>,
     <<<<"c">>>>,
     <<<<"c">>, <<"a">>>>,
     <<<<"d">>>>,
     <<<<"d">>, <<"1">>, <<"a">>>>,
     <<<<"d">>, <<"0">>>>,
     <<<<"s">>>>,
     <<<<"e">>>>}

\* 'a: 1' / "'b'\n: 2" / 'c: {\n// }\na: 3\n}' / "d: [\n'a',\n{a: 4} /* ] */\n]" / "s: 'a: 5'" / '// a: 6' / '/* a: 7' / "u: 'x\\"
Json5Menu ==
    {[text |-> <<"a", ":", " ", "1">>,
      keys |-> {[path |-> <<<<"a">>>>, line |-> 0, last |-> 0, kind |-> "scalar"]},
      decoys |-> {},
      header |-> FALSE, section |-> <<>>, malformed |-> FALSE],
     [text |-> <<"'", "b", "'", "\n", ":", " ", "2">>,
      keys |-> {[path |-> <<<<"b">>>>, line |-> 0, last |-> 1, kind |-> "split"]},
      decoys |-> {},
      header |-> FALSE, section |-> <<>>, malformed |-> FALSE],
     [text |-> <<"c", ":", " ", "{", "\n", "/", "/", " ", "}", "\n", "a", ":", " ", "3", "\n", "}">>,
      keys |-> {[path |-> <<<<"c">>>>, line |-> 0, last |-> 3, kind |-> "container"], [path |-> <<<<"c">>, <<"a">>>>, line |-> 2, last |-> 2, kind |-> "scalar"]},
      decoys |-> {},
      header |-> FALSE, section |-> <<>>, malformed |-> FALSE],
     [text |-> <<"d", ":", " ", "[", "\n", "'", "a", "'", ",", "\n", "{", "a", ":", " ", "4", "}", " ", "/", "*", " ", "]", " ", "*", "/", "\n", "]">>,
      keys |-> {[path |-> <<<<"d">>>>, line |-> 0, last |-> 3, kind |-> "container"], [path |-> <<<<"d">>, <<"1">>, <<"a">>>>, line |-> 2, last |-> 2, kind |-> "scalar"]},
      decoys |-> {[name |-> <<"a">>, line |-> 1, kind |-> "element"]},
      header |-> FALSE, section |-> <<>>, malformed |-> FALSE],
     [text |-> <<"s", ":", " ", "'", "a", ":", " ", "5", "'">>,
      keys |-> {[path |-> <<<<"s">>>>, line |-> 0, last |-> 0, kind |-> "scalar"]},
      decoys |-> {[name |-> <<"a">>, line |-> 0, kind |-> "string"]},
      header |-> FALSE, section |-> <<>>, malformed |-> FALSE],
     [text |-> <<"/", "/", " ", "a", ":", " ", "6">>,
      keys |-> {},
      decoys |-> {[name |-> <<"a">>, line |-> 0, kind |-> "comment"]},
      header |-> FALSE, section |-> <<>>, malformed |-> FALSE],
     [text |-> <<"/", "*", " ", "a", ":", " ", "7">>,
      keys |-> {},
      decoys |-> {},
      header |-> FALSE, section |-> <<>>, malformed |-> TRUE],
     [text |-> <<"u", ":", " ", "'", "x", "\\">>,
      keys |-> {},
      decoys |-> {},
      header |-> FALSE, section |-> <<>>, malformed |-> TRUE]}

Json5Targets ==
    {<<>>,
     <<<<"a">>>>,
     <<<<"b">>>>,
     <<<<"c">>>>,
     <<<<"c">>, <<"a">>>>,
     <<<<"d">>>>,
     <<<<"d">>, <<"1">>, <<"a">>>>,
     <<<<"d">>, <<"0">>>>,
     <<<<"s">>>>}

\* 'a = 1' / '[t]' / 'b = x\n  a = 2' / '; a = 3' / '' / 'c: a = 4' / '[u'
IniMenu ==
    {[text |-> <<"a", " ", "=", " ", "1">>,
      keys |-> {[path |-> <<<<"a">>>>, line |-> 0, last |-> 0, kind |-> "scalar"]},
      decoys |-> {},
      header |-> FALSE, section |-> <<>>, malformed |-> FALSE],
     [text |-> <<"[", "t", "]">>,
      keys |-> {},
      decoys |-> {},
      header |-> TRUE, section |-> <<<<"t">>>>, malformed |-> FALSE],
     [text |-> <<"b", " ", "=", " ", "x", "\n", " ", " ", "a", " ", "=", " ", "2">>,
      keys |-> {[path |-> <<<<"b">>>>, line |-> 0, last |-> 1, kind |-> "multiline"]},
      decoys |-> {[name |-> <<"a">>, line |-> 1, kind |-> "continuation"]},
      header |-> FALSE, section |-> <<>>, malformed |-> FALSE],
     [text |-> <<";", " ", "a", " ", "=", " ", "3">>,
      keys |-> {},
      decoys |-> {[name |-> <<"a">>, line |-> 0, kind |-> "comment"]},
      header |-> FALSE, section |-> <<>>, malformed |-> FALSE],
     [text |-> <<>>,
      keys |-> {},
      decoys |-> {},
      header |-> FALSE, section |-> <<>>, malformed |-> FALSE],
     [text |-> <<"c", ":", " ", "a", " ", "=", " ", "4">>,
      keys |-> {[path |-> <<<<"c">>>>, line |-> 0, last |-> 0, kind |-> "scalar"]},
      decoys |-> {[name |-> <<"a">>, line |-> 0, kind |-> "string"]},
      header |-> FALSE, section |-> <<>>, malformed |-> FALSE],
     [text |-> <<"[", "u">>,
      keys |-> {},
      decoys |-> {},
      header |-> FALSE, section |-> <<>>, malformed |-> TRUE]}

IniTargets ==
    {<<>>,
     <<<<"s">>, <<"a">>>>,
     <<<<"s">>, <<"b">>>>,
     <<<<"t">>, <<"a">>>>,
     <<<<"t">>, <<"b">>>>,
     <<<<"s">>, <<"c">>>>,
     <<<<"a">>>>,
     <<<<"s">>, <<"b">>, <<"a">>>>}

\* 'a = 1' / '[s]' / 'm = """\na = 2\n"""' / 't = [\n"a = 3",\n]' / 'b = "a = 4"' / '# a = 5' / 'i = {x = "]"}' / 'e = ["\\"]",\n1]' / 'u = """x' / 'v = [{"'
TomlMenu ==
    {[text |-> <<"a", " ", "=", " ", "1">>,
      keys |-> {[path |-> <<<<"a">>>>, line |-> 0, last |-> 0, kind |-> "scalar"]},
      decoys |-> {},
      header |-> FALSE, section |-> <<>>, malformed |-> FALSE],
     [text |-> <<"[", "s", "]">>,
      keys |-> {},
      decoys |-> {},
      header |-> TRUE, section |-> <<<<"s">>>>, malformed |-> FALSE],
     [text |-> <<"m", " ", "=", " ", "\"", "\"", "\"", "\n", "a", " ", "=", " ", "2", "\n", "\"", "\"", "\"">>,
      keys |-> {[path |-> <<<<"m">>>>, line |-> 0, last |-> 2, kind |-> "multiline"]},
      decoys |-> {[name |-> <<"a">>, line |-> 1, kind |-> "multiline"]},
      header |-> FALSE, section |-> <<>>, malformed |-> FALSE],
     [text |-> <<"t", " ", "=", " ", "[", "\n", "\"", "a", " ", "=", " ", "3", "\"", ",", "\n", "]">>,
      keys |-> {[path |-> <<<<"t">>>>, line |-> 0, last |-> 2, kind |-> "container"]},
      decoys |-> {[name |-> <<"a">>, line |-> 1, kind |-> "element"]},
      header |-> FALSE, section |-> <<>>, malformed |-> FALSE],
     [text |-> <<"b", " ", "=", " ", "\"", "a", " ", "=", " ", "4", "\"">>,
      keys |-> {[path |-> <<<<"b">>>>, line |-> 0, last |-> 0, kind |-> "scalar"]},
      decoys |-> {[name |-> <<"a">>, line |-> 0, kind |-> "string"]},
      header |-> FALSE, section |-> <<>>, malformed |-> FALSE],
     [text |-> <<"#", " ", "a", " ", "=", " ", "5">>,
      keys |-> {},
      decoys |-> {[name |-> <<"a">>, line |-> 0, kind |-> "comment"]},
      header |-> FALSE, section |-> <<>>, malformed |-> FALSE],
     [text |-> <<"i", " ", "=", " ", "{", "x", " ", "=", " ", "\"", "]", "\"", "}">>,
      keys |-> {[path |-> <<<<"i">>>>, line |-> 0, last |-> 0, kind |-> "container"]},
      decoys |-> {},
      header |-> FALSE, section |-> <<>>, malformed |-> FALSE],
     [text |-> <<"e", " ", "=", " ", "[", "\"", "\\", "\"", "]", "\"", ",", "\n", "1", "]">>,
      keys |-> {[path |-> <<<<"e">>>>, line |-> 0, last |-> 1, kind |-> "container"]},
      decoys |-> {},
      header |-> FALSE, section |-> <<>>, malformed |-> FALSE],
     [text |-> <<"u", " ", "=", " ", "\"", "\"", "\"", "x">>,
      keys |-> {},
      decoys |-> {},
      header |-> FALSE, section |-> <<>>, malformed |-> TRUE],
     [text |-> <<"v", " ", "=", " ", "[", "{", "\"">>,
      keys |-> {},
      decoys |-> {},
      header |-> FALSE, section |-> <<>>, malformed |-> TRUE]}

TomlTargets ==
    {<<>>,
     <<<<"a">>>>,
     <<<<"m">>>>,
     <<<<"t">>>>,
     <<<<"b">>>>,
     <<<<"i">>>>,
     <<<<"e">>>>,
     <<<<"s">>, <<"a">>>>,
     <<<<"s">>, <<"m">>>>,
     <<<<"s">>, <<"t">>>>,
     <<<<"m">>, <<"a">>>>,
     <<<<"t">>, <<"a">>>>}

\* 'a: 1' / 'p:\n  a: 2' / 'm: |\n  a: 3' / '# a: 4' / 'l:\n  - a\n  - x' / 'b: "a: 5"' / 'u: "x'
YamlMenu ==
    {[text |-> <<"a", ":", " ", "1">>,
      keys |-> {[path |-> <<<<"a">>>>, line |-> 0, last |-> 0, kind |-> "scalar"]},
      decoys |-> {},
      header |-> FALSE, section |-> <<>>, malformed |-> FALSE],
     [text |-> <<"p", ":", "\n", " ", " ", "a", ":", " ", "2">>,
      keys |-> {[path |-> <<<<"p">>>>, line |-> 0, last |-> 1, kind |-> "container"], [path |-> <<<<"p">>, <<"a">>>>, line |-> 1, last |-> 1, kind |-> "scalar"]},
      decoys |-> {},
      header |-> FALSE, section |-> <<>>, malformed |-> FALSE],
     [text |-> <<"m", ":", " ", "|", "\n", " ", " ", "a", ":", " ", "3">>,
      keys |-> {[path |-> <<<<"m">>>>, line |-> 0, last |-> 1, kind |-> "multiline"]},
      decoys |-> {[name |-> <<"a">>, line |-> 1, kind |-> "multiline"]},
      header |-> FALSE, section |-> <<>>, malformed |-> FALSE],
     [text |-> <<"#", " ", "a", ":", " ", "4">>,
      keys |-> {},
      decoys |-> {[name |-> <<"a">>, line |-> 0, kind |-> "comment"]},
      header |-> FALSE, section |-> <<>>, malformed |-> FALSE],
     [text |-> <<"l", ":", "\n", " ", " ", "-", " ", "a", "\n", " ", " ", "-", " ", "x">>,
      keys |-> {[path |-> <<<<"l">>>>, line |-> 0, last |-> 2, kind |-> "container"]},
      decoys |-> {},
      header |-> FALSE, section |-> <<>>, malformed |-> FALSE],
     [text |-> <<"b", ":", " ", "\"", "a", ":", " ", "5", "\"">>,
      keys |-> {[path |-> <<<<"b">>>>, line |-> 0, last |-> 0, kind |-> "scalar"]},
      decoys |-> {[name |-> <<"a">>, line |-> 0, kind |-> "string"]},
      header |-> FALSE, section |-> <<>>, malformed |-> FALSE],
     [text |-> <<"u", ":", " ", "\"", "x">>,
      keys |-> {},
      decoys |-> {},
      header |-> FALSE, section |-> <<>>, malformed |-> TRUE]}

YamlTargets ==
    {<<>>,
     <<<<"a">>>>,
     <<<<"p">>>>,
     <<<<"p">>, <<"a">>>>,
     <<<<"m">>>>,
     <<<<"m">>, <<"a">>>>,
     <<<<"l">>>>,
     <<<<"b">>>>,
     <<<<"l">>, <<"a">>>>}

Menu(fmt) ==
    CASE fmt = "json" -> JsonMenu
      [] fmt = "json5" -> Json5Menu
      [] fmt = "ini" -> IniMenu
      [] fmt = "toml" -> TomlMenu
      [] OTHER -> YamlMenu

Targets(fmt) ==
    CASE fmt = "json" -> JsonTargets
      [] fmt = "json5" -> Json5Targets
      [] fmt = "ini" -> IniTargets
      [] fmt = "toml" -> TomlTargets
      [] OTHER -> YamlTargets

Formats == {"json", "json5", "ini", "toml", "yaml"}

\* the entries of a text: up to MaxEntries of the menu, none twice
Layouts(fmt) ==
    {l \in UNION {[1..n -> Menu(fmt)] : n \in 1..MaxEntries} :
        \A i, j \in 1..Len(l) : l[i] = l[j] => i = j}

RECURSIVE join(_, _)
join(entries, sep) ==
    IF entries = <<>> THEN <<>>
    ELSE IF Len(entries) = 1 THEN entries[1].text
    ELSE entries[1].text \o sep \o join(Tail(entries), sep)

\* what stands before the entries: the opening brace of the JSON object, the
\* first section header of an INI file (configparser reads no key before one)
Preamble(fmt) ==
    IF fmt \in {"json", "json5"} THEN <<"{", "\n">>
    ELSE IF fmt = "ini" THEN <<"[", "s", "]", "\n">>
    ELSE <<>>

\* JSON and JSON5 entries are the members of one object, the others lines of the file
TextOf(fmt, entries) ==
    IF fmt \in {"json", "json5"}
    THEN Preamble(fmt) \o join(entries, <<",", "\n">>) \o <<"\n", "}", "\n">>
    ELSE Preamble(fmt) \o join(entries, <<"\n">>) \o <<"\n">>

(***************************************************************************)
(* error_formatter.py builds a finder from a source's text and asks it for *)
(* a path; a finder may be asked again.                                    *)
(***************************************************************************)
InitScan ==
    /\ NoGroups
    /\ NoLocation
    /\ NoSources /\ NoPatch /\ NoHeap
    /\ raw_dicts = <<>>
    /\ source_ctxs = <<>>
    /\ strategy = "LAST_WINS"
    /\ field_merge_map = <<>>
    /\ pc = "failed"
    /\ step_idx = 0
    /\ merged = EmptyDict
    /\ error = NoError
    /\ result = Unbound
    /\ format \in Formats
    /\ layout \in Layouts(format)
    /\ content = TextOf(format, layout)
    /\ finder = NewFinder
    /\ target_path = <<>>
    /\ located = NotFound
    /\ queries = 0
    /\ cursor = <<>>

\* JsonPathFinder(content).find_line_range(path) and Json5PathFinder's
CharFind(fmt) ==
    /\ format = fmt
    /\ queries < MaxQueries
    /\ \E path \in Targets(fmt) :
        /\ target_path' = path
        /\ located' = char_find_line_range(fmt, content, path)
    /\ queries' = queries + 1
    /\ UNCHANGED <<format, content, layout, finder, cursor, loadVars, groupVars, locVars, metaVars, patchVars, heapVars>>

\* TablePathFinder, TomlPathFinder and YamlPathFinder keep their fields between calls
LineFind(fmt) ==
    /\ format = fmt
    /\ queries < MaxQueries
    /\ \E path \in Targets(fmt) :
        LET out == line_find_line_range(fmt, content, path, finder)
        IN  /\ target_path' = path
            /\ located' = out.located
            /\ finder' = out.finder
    /\ queries' = queries + 1
    /\ UNCHANGED <<format, content, layout, cursor, loadVars, groupVars, locVars, metaVars, patchVars, heapVars>>

FindJson == CharFind("json")
FindJson5 == CharFind("json5")
FindIni == LineFind("ini")
FindToml == LineFind("toml")
FindYaml == LineFind("yaml")

NextScan == FindJson \/ FindJson5 \/ FindIni \/ FindToml \/ FindYaml

SpecScan == InitScan /\ [][NextScan]_vars



(***************************************************************************)
(* error_formatter.py: resolve_source_location.  A SourceLocation holds    *)
(* its line_range as the finder's outcome and its line_content as          *)
(* [some, lines]; None is written NoLines.                                 *)
(***************************************************************************)
NoLines == [some |-> FALSE, lines |-> <<>>]
Lines(ls) == [some |-> TRUE, lines |-> ls]

SourceLocation(source_type, file_path_, line_range, line_content, env_var_name) ==
    [source_type |-> source_type, file_path |-> file_path_, line_range |-> line_range,
     line_content |-> line_content, env_var_name |-> env_var_name]

\* the call left by the exception of the finder
RaisedLocation(exception) ==
    [source_type |-> "none", file_path |-> None, line_range |-> NotFound,
     line_content |-> NoLines, env_var_name |-> None, raised |-> exception]

LowerCase == <<"a", "b", "c", "d", "e", "f", "g", "h", "i", "j", "k", "l", "m",
               "n", "o", "p", "q", "r", "s", "t", "u", "v", "w", "x", "y", "z">>
UpperCase == <<"A", "B", "C", "D", "E", "F", "G", "H", "I", "J", "K", "L", "M",
               "N", "O", "P", "Q", "R", "S", "T", "U", "V", "W", "X", "Y", "Z">>

\* str.upper
upper(s) ==
    [i \in 1..Len(s) |->
        IF \E n \in 1..Len(LowerCase) : LowerCase[n] = s[i]
        THEN UpperCase[CHOOSE n \in 1..Len(LowerCase) : LowerCase[n] = s[i]]
        ELSE s[i]]

\* sep.join(parts)
RECURSIVE str_join(_, _)
str_join(sep, parts) ==
    IF parts = <<>> THEN <<>>
    ELSE IF Len(parts) = 1 THEN parts[1]
    ELSE parts[1] \o sep \o str_join(sep, Tail(parts))

build_env_var_name(path, prefix, split_symbols) ==
    LET var_name == str_join(split_symbols, [i \in 1..Len(path) |-> upper(path[i])])
    IN  IF prefix # None THEN prefix \o var_name ELSE var_name

build_search_path(path, prefix) ==
    IF prefix = None \/ prefix = <<>> THEN path
    ELSE split(prefix, <<".">>) \o path

RECURSIVE find_env_line_from(_, _, _)
find_env_line_from(lines, i, var_name) ==
    IF i > Len(lines) THEN SourceLocation("envfile", None, NotFound, NoLines, var_name)
    ELSE LET stripped == strip(lines[i])
         IN  IF stripped = <<>> \/ startswith(stripped, {"#"}) THEN find_env_line_from(lines, i + 1, var_name)
             ELSE IF ~contains(stripped, <<"=">>) THEN find_env_line_from(lines, i + 1, var_name)
             ELSE IF strip(partition(stripped, <<"=">>).head) = var_name
                  THEN SourceLocation("envfile", None, Found(LineRange(i, i)), Lines(<<stripped>>), var_name)
             ELSE find_env_line_from(lines, i + 1, var_name)

find_env_line(content_, var_name) == find_env_line_from(splitlines(content_), 1, var_name)

empty_file_location(loader_type, file_path_) ==
    SourceLocation(loader_type, file_path_, NotFound, NoLines, None)

strip_common_indent(raw_lines) ==
    LET indents == {Len(raw_lines[i]) - Len(lstrip(raw_lines[i])) :
                        i \in {j \in 1..Len(raw_lines) : strip(raw_lines[j]) # <<>>}}
    IN  IF indents = {} THEN raw_lines
        ELSE LET min_indent == CHOOSE n \in indents : \A k \in indents : n <= k
             IN  [i \in 1..Len(raw_lines) |-> SubSeq(raw_lines[i], min_indent + 1, Len(raw_lines[i]))]

\* _PATH_FINDER_MAP.get(loader_type): the finder class by its format, "none" for None
PATH_FINDER_MAP(loader_type) ==
    IF loader_type \in {"yaml", "yaml1.1", "yaml1.2"} THEN "yaml"
    ELSE IF loader_type \in {"json", "json5", "toml", "ini"} THEN loader_type
    ELSE "none"

\* finder_class(file_content).find_line_range(search_path)
find_line_range(finder_class, content_, search_path) ==
    IF finder_class \in {"json", "json5"} THEN char_find_line_range(finder_class, content_, search_path)
    ELSE line_find_line_range(finder_class, content_, search_path, NewFinder).located

\* mutant: the finder is asked for the field path without the prefix
resolve_file_location_without_prefix(path, loader_type, file_path_, content_, prefix) ==
    IF content_ = None \/ path = <<>> \/ PATH_FINDER_MAP(loader_type) = "none"
    THEN empty_file_location(loader_type, file_path_)
    ELSE LET line_range == find_line_range(PATH_FINDER_MAP(loader_type), content_, path)
             lines == splitlines(content_)
         IN  IF ~line_range.found THEN empty_file_location(loader_type, file_path_)
             ELSE SourceLocation(loader_type, file_path_, line_range,
                      Lines(strip_common_indent(SubSeq(lines, line_range.start, line_range.end))), None)

resolve_file_location(path, loader_type, file_path_, content_, prefix) ==
    IF content_ = None \/ path = <<>> THEN empty_file_location(loader_type, file_path_)
    ELSE LET finder_class == PATH_FINDER_MAP(loader_type)
         IN  IF finder_class = "none" THEN empty_file_location(loader_type, file_path_)
             ELSE LET search_path == build_search_path(path, prefix)
                      line_range == find_line_range(finder_class, content_, search_path)
                      lines == splitlines(content_)
                      end == IF line_range.end < Len(lines) THEN line_range.end ELSE Len(lines)
                  IN  IF IsRaised(line_range) THEN RaisedLocation(line_range.raised)
                      ELSE IF ~line_range.found THEN empty_file_location(loader_type, file_path_)
                      ELSE SourceLocation(loader_type, file_path_, line_range,
                               IF 0 < line_range.start /\ line_range.start <= Len(lines)
                               THEN Lines(strip_common_indent(SubSeq(lines, line_range.start, end)))
                               ELSE NoLines,
                               None)

\* resolve_source_location(field_path, ctx, file_content), computed; the
\* operator of that name above only records the three arguments
resolve_location(path, ctx_, content_) ==
    IF ctx_.loader_type = "env"
    THEN SourceLocation("env", None, NotFound, NoLines,
             build_env_var_name(path, ctx_.prefix, ctx_.split_symbols))
    ELSE IF ctx_.loader_type = "envfile"
    THEN LET env_var_name == build_env_var_name(path, ctx_.prefix, ctx_.split_symbols)
         IN  IF content_ # None
             THEN LET found_ == find_env_line(content_, env_var_name)
                  IN  SourceLocation("envfile", ctx_.file_path, found_.line_range, found_.line_content, env_var_name)
             ELSE SourceLocation("envfile", ctx_.file_path, NotFound, NoLines, env_var_name)
    ELSE resolve_file_location(path, ctx_.loader_type, ctx_.file_path, content_, ctx_.prefix)

(***************************************************************************)
(* The sources an error may be attributed to                               *)
(***************************************************************************)
MaxEnvLines == 3

ErrorContext(loader_type, file_path_, prefix, split_symbols) ==
    [loader_type |-> loader_type, file_path |-> file_path_, prefix |-> prefix, split_symbols |-> split_symbols]

\* the lines of a .env file
EnvMenu ==
    {<<"A", "_", "_", "B", "=", "1">>,
     <<"A", " ", "=", " ", "2">>,
     <<" ", " ", "x">>,
     <<"#", " ", "A", "=", "3">>,
     <<>>,
     <<"P", "_", "A", "=", "4">>,
     <<"B">>,
     <<"A", "=", "5">>}

EnvTexts ==
    {str_join(<<"\n">>, l) \o <<"\n">> : l \in UNION {[1..n -> EnvMenu] : n \in 1..MaxEnvLines}}

EnvPaths == {<<>>, <<<<"a">>>>, <<<<"b">>>>, <<<<"a">>, <<"b">>>>}
EnvPrefixes == {None, <<>>, <<"P", "_">>}

\* the format of the documents a file loader reads
FormatOf(loader_type) == PATH_FINDER_MAP(loader_type)
FileLoaders == {"json", "json5", "ini", "toml", "yaml1.1", "yaml1.2"}

\* the paths asked of a document: those of its keys, whole or below a prefix
FilePaths(fmt) == Targets(fmt) \cup {Tail(t) : t \in Targets(fmt) \ {<<>>}}
FilePrefixes(fmt) == {None, <<>>} \cup {t[1] : t \in {u \in Targets(fmt) : Len(u) >= 2}}

InitLocate ==
    /\ \/ /\ error_ctx \in {ErrorContext("env", None, prefix, <<"_", "_">>) : prefix \in EnvPrefixes}
          /\ error_path \in EnvPaths
          /\ error_content = None
       \/ /\ error_ctx \in {ErrorContext("envfile", <<"f">>, prefix, <<"_", "_">>) : prefix \in EnvPrefixes}
          /\ error_path \in EnvPaths
          /\ error_content \in {None} \cup EnvTexts
       \/ \E loader_type \in FileLoaders :
             /\ error_ctx \in {ErrorContext(loader_type, file_path_, prefix, <<".">>) :
                            file_path_ \in {None, <<"f">>}, prefix \in FilePrefixes(FormatOf(loader_type))}
             /\ error_path \in FilePaths(FormatOf(loader_type))
             /\ error_content \in {None} \cup {TextOf(FormatOf(loader_type), l) : l \in Layouts(FormatOf(loader_type))}
    /\ location = SourceLocation("none", None, NotFound, NoLines, None)
    /\ raw_dicts = <<>>
    /\ source_ctxs = <<>>
    /\ strategy = "LAST_WINS"
    /\ field_merge_map = <<>>
    /\ pc = "failed"
    /\ step_idx = 0
    /\ merged = EmptyDict
    /\ error = NoError
    /\ result = Unbound
    /\ NoGroups
    /\ NoScan
    /\ NoSources /\ NoPatch /\ NoHeap

ResolveSourceLocation ==
    /\ error_ctx # <<>>
    /\ location.source_type = "none"
    /\ ~IsRaised(location)
    /\ location' = resolve_location(error_path, error_ctx, error_content)
    /\ UNCHANGED <<error_ctx, error_path, error_content, loadVars, groupVars, scanVars, metaVars, patchVars, heapVars>>

NextLocate == ResolveSourceLocation

SpecLocate == InitLocate /\ [][NextLocate]_vars

(***************************************************************************)
(* source_loading.py: load_sources, followed by the merge.  A source is   *)
(* [skip_if_broken, load]: skip_if_broken is "None", "True" or "False",    *)
(* load.kind what load_raw under handle_load_errors does ("ok" with the    *)
(* tree load.raw, or the exception it raises).  skip_if_invalid is left at *)
(* its default, so apply_merge_skip_invalid hands the tree on unchanged.   *)
(***************************************************************************)
LoadMetadata(skip_if_broken, kind, raw) ==
    [skip_if_broken |-> skip_if_broken, load |-> [kind |-> kind, raw |-> raw]]

\* mutant: only the merge-level flag is looked at
should_skip_broken_merge_level_only(source_meta, merge_skip_broken_sources) == merge_skip_broken_sources

should_skip_broken(source_meta, merge_skip_broken_sources) ==
    IF source_meta.skip_if_broken # "None" THEN source_meta.skip_if_broken = "True"
    ELSE merge_skip_broken_sources

\* the exception that leaves load_sources when a broken source is not
\* skipped: DatureConfigError and FileNotFoundError are re-raised; for any
\* other exception the handler builds SourceLocation(line_number=None, ...),
\* a keyword SourceLocation does not have, which raises TypeError
raised_by_broken_source(kind, i) ==
    [kind |-> IF kind \in {"DatureConfigError", "FileNotFoundError"} THEN kind
              ELSE IF kind = "LoadError" THEN "DatureConfigError"
              ELSE "TypeError",
     errors |-> <<[source_index |-> i]>>]

\* the single SourceLoadError of a load without one loaded source
no_source_loaded == [kind |-> "DatureConfigError", errors |-> <<[source_index |-> 0 - 1]>>]

\* the read_file_content calls of handle_load_errors around load_raw: the
\* text is read when the mapper's LoadError is caught, to locate its fields
handle_load_errors_reads(kind, i) ==
    IF kind = "LoadError" THEN <<[source |-> i, on_error |-> TRUE]>> ELSE <<>>

LoadKinds == {"DatureConfigError", "FileNotFoundError", "LoadError", "Exception"}
LoadedTrees == {DictV("a" :> IntV(1)), DictV(("a" :> IntV(2)) @@ ("b" :> IntV(1)))}

SourceMetas ==
    {LoadMetadata("None", "ok", t) : t \in LoadedTrees}
    \cup {LoadMetadata(s, k, EmptyDict) : s \in {"None", "True", "False"}, k \in LoadKinds}

InitSources ==
    /\ source_metas \in UNION {[1..n -> SourceMetas] : n \in 0..MaxSources}
    /\ skip_broken_sources \in BOOLEAN
    /\ loop_idx = 0
    /\ diagnostic_reads = <<>>
    /\ raw_dicts = <<>>
    /\ source_ctxs = <<>>
    /\ strategy \in {"LAST_WINS", "FIRST_WINS", "RAISE_ON_CONFLICT"}
    /\ field_merge_map = <<>>
    /\ pc = "loading"
    /\ step_idx = 0
    /\ merged = EmptyDict
    /\ error = NoError
    /\ result = Unbound
    /\ NoGroups
    /\ NoScan
    /\ NoLocation
    /\ NoPatch /\ NoHeap

\* one iteration of the loop of load_sources (source_loading.py:91-177)
LoadSource ==
    /\ pc = "loading"
    /\ loop_idx < Len(source_metas)
    /\ LET source_meta == source_metas[loop_idx + 1]
       IN  IF source_meta.load.kind = "ok"
           THEN /\ raw_dicts' = Append(raw_dicts, source_meta.load.raw)
                /\ diagnostic_reads' = Append(diagnostic_reads, [source |-> loop_idx, on_error |-> FALSE])
                /\ source_ctxs' = Append(source_ctxs, [ctx |-> loop_idx, content |-> loop_idx])
                /\ loop_idx' = loop_idx + 1
                /\ UNCHANGED <<pc, error>>
           ELSE IF should_skip_broken(source_meta, skip_broken_sources)
           THEN /\ loop_idx' = loop_idx + 1
                /\ diagnostic_reads' = diagnostic_reads \o handle_load_errors_reads(source_meta.load.kind, loop_idx)
                /\ UNCHANGED <<raw_dicts, source_ctxs, pc, error>>
           ELSE /\ pc' = "failed"
                /\ error' = raised_by_broken_source(source_meta.load.kind, loop_idx)
                /\ diagnostic_reads' = diagnostic_reads \o handle_load_errors_reads(source_meta.load.kind, loop_idx)
                /\ UNCHANGED <<raw_dicts, source_ctxs, loop_idx>>
    /\ UNCHANGED <<strategy, field_merge_map, step_idx, merged, result, source_metas, skip_broken_sources>>
    /\ UNCHANGED <<groupVars, scanVars, locVars, patchVars, heapVars>>

\* after the loop (source_loading.py:179-195)
LoadSourcesDone ==
    /\ pc = "loading"
    /\ loop_idx = Len(source_metas)
    /\ IF raw_dicts = <<>>
       THEN pc' = "failed" /\ error' = no_source_loaded
       ELSE pc' = "loaded" /\ error' = error
    /\ UNCHANGED <<raw_dicts, source_ctxs, strategy, field_merge_map, step_idx, merged, result>>
    /\ UNCHANGED <<groupVars, scanVars, locVars, metaVars, patchVars, heapVars>>

NextSources == LoadSource \/ LoadSourcesDone \/ RaiseOnConflict \/ MergeStep \/ Transform

SpecSources == InitSources /\ [][NextSources]_vars

(***************************************************************************)
(* merge.py / patcher.py: the patched __init__ and __post_init__ of a      *)
(* decorated class.  The class has the fields a and b; a load binds both   *)
(* to what the file holds.  A call in progress is a frame                  *)
(* [pc, args, kwargs, loaded_data, self]; 0 stands for "not given".        *)
(***************************************************************************)
MaxConstructions == 3

field_list == <<"a", "b">>
Broken == 0
Files == {Broken, 1, 2}
Explicit == 9
NoData == [a |-> 0, b |-> 0]
DataOf(file) == [a |-> file, b |-> file]

\* _MergePatchContext.__init__ (merge.py:364-388), _PatchContext.__init__
PatchContext(cache, with_post_init) ==
    [cache |-> cache, cached_data |-> NoData, loading |-> FALSE, validating |-> FALSE,
     original_post_init |-> with_post_init]

Frame(args, kwargs) ==
    [pc |-> "new_init", args |-> args, kwargs |-> kwargs, loaded_data |-> NoData, self |-> NoData]

\* the positional and keyword arguments of a construction by the program
CallArguments ==
    {[args |-> <<>>, kwargs |-> NoData],
     [args |-> <<Explicit>>, kwargs |-> NoData],
     [args |-> <<>>, kwargs |-> [a |-> 0, b |-> Explicit]]}

\* the mapper constructs the class with every field as a keyword argument
AllKeywords(data) == [args |-> <<>>, kwargs |-> data]

\* mutant: the loaded data replace the explicit arguments too
merge_fields_ignores_explicit(loaded_data, args, kwargs) == loaded_data

\* loading_context.py:72-86
merge_fields(loaded_data, args, kwargs) ==
    LET explicit_fields == {f \in {"a", "b"} : kwargs[f] # 0}
                           \cup {field_list[i] : i \in {j \in 1..Len(args) : j <= Len(field_list)}}
    IN  [f \in {"a", "b"} |-> IF f \in explicit_fields THEN kwargs[f] ELSE loaded_data[f]]

\* the dataclass's own __init__: positional arguments bind the fields in
\* declaration order, keyword arguments by name
original_init(args, kwargs) ==
    [f \in {"a", "b"} |->
        IF \E i \in 1..Len(args) : field_list[i] = f
        THEN args[CHOOSE i \in 1..Len(args) : field_list[i] = f]
        ELSE kwargs[f]]

\* mutant: the loading flag is left as it is when the load ends
finally_loading_missing(patch) == patch

\* finally: ctx.loading = False (merge.py:426-427, patcher.py:171-172)
finally_loading(patch) == [patch EXCEPT !.loading = FALSE]

\* finally: ctx.validating = False (merge.py:465-466)
finally_validating(patch) == [patch EXCEPT !.validating = FALSE]

Top == calls[Len(calls)]
Below == SubSeq(calls, 1, Len(calls) - 1)
SetTop(frame) == [calls EXCEPT ![Len(calls)] = frame]

\* the innermost call returns its instance to where it was made from: the
\* program, transform_to_dataclass inside _load_and_merge, or the validation
\* loader inside new_post_init
Return(frame) ==
    IF Len(calls) = 1
    THEN /\ calls' = <<>>
         /\ instance' = [self |-> frame.self, raised |-> FALSE, args |-> frame.args, kwargs |-> frame.kwargs]
    ELSE /\ instance' = instance
         /\ LET caller == calls[Len(calls) - 1]
                back == IF caller.pc = "load_and_merge"
                        THEN [caller EXCEPT !.pc = "finally_loading", !.loaded_data = frame.self]
                        ELSE [caller EXCEPT !.pc = "validated"]
            IN  calls' = [Below EXCEPT ![Len(calls) - 1] = back]

InitPatch ==
    /\ patch_ctx \in {PatchContext(c, p) : c \in BOOLEAN, p \in BOOLEAN}
    /\ file_ \in Files
    /\ calls = <<>>
    /\ raising = FALSE
    /\ instance = [self |-> NoData, raised |-> FALSE, args |-> <<>>, kwargs |-> NoData]
    /\ constructions = 0
    /\ loads = 0
    /\ first_loaded = NoData
    /\ raw_dicts = <<>>
    /\ source_ctxs = <<>>
    /\ strategy = "LAST_WINS"
    /\ field_merge_map = <<>>
    /\ pc = "done"
    /\ step_idx = 0
    /\ merged = EmptyDict
    /\ error = NoError
    /\ result = Unbound
    /\ NoGroups
    /\ NoScan
    /\ NoLocation
    /\ NoSources /\ NoHeap

\* the program constructs the class
Construct ==
    /\ calls = <<>>
    /\ constructions < MaxConstructions
    /\ \E call \in CallArguments : calls' = <<Frame(call.args, call.kwargs)>>
    /\ constructions' = constructions + 1
    /\ UNCHANGED <<patch_ctx, file_, raising, instance, loads, first_loaded>>
    /\ UNCHANGED <<loadVars, groupVars, scanVars, locVars, metaVars, heapVars>>

\* the file is rewritten between two constructions
ChangeFile ==
    /\ calls = <<>>
    /\ file_' \in Files \ {file_}
    /\ UNCHANGED <<patch_ctx, calls, raising, instance, constructions, loads, first_loaded>>
    /\ UNCHANGED <<loadVars, groupVars, scanVars, locVars, metaVars, heapVars>>

\* new_init up to the load (merge.py:410-418, patcher.py:160-168)
NewInit ==
    /\ calls # <<>> /\ ~raising
    /\ Top.pc = "new_init"
    /\ IF patch_ctx.loading
       THEN LET made == [Top EXCEPT !.self = original_init(Top.args, Top.kwargs)]
            IN  /\ IF patch_ctx.original_post_init
                   THEN calls' = SetTop([made EXCEPT !.pc = "post_init"]) /\ instance' = instance
                   ELSE Return(made)
                /\ patch_ctx' = patch_ctx
       ELSE IF patch_ctx.cache /\ patch_ctx.cached_data # NoData
       THEN /\ calls' = SetTop([Top EXCEPT !.pc = "merge_fields", !.loaded_data = patch_ctx.cached_data])
            /\ UNCHANGED <<patch_ctx, instance>>
       ELSE /\ patch_ctx' = [patch_ctx EXCEPT !.loading = TRUE]
            /\ calls' = SetTop([Top EXCEPT !.pc = "load_and_merge"])
            /\ instance' = instance
    /\ UNCHANGED <<file_, raising, constructions, loads, first_loaded>>
    /\ UNCHANGED <<loadVars, groupVars, scanVars, locVars, metaVars, heapVars>>

\* _load_and_merge / _load_single_source: the sources are read and the mapper
\* constructs the class from them, or the load raises
LoadAndMerge ==
    /\ calls # <<>> /\ ~raising
    /\ Top.pc = "load_and_merge"
    /\ loads' = loads + 1
    /\ IF file_ = Broken
       THEN raising' = TRUE /\ calls' = calls
       ELSE /\ raising' = raising
            /\ LET call == AllKeywords(DataOf(file_))
               IN  calls' = Append(calls, Frame(call.args, call.kwargs))
    /\ UNCHANGED <<patch_ctx, file_, instance, constructions, first_loaded>>
    /\ UNCHANGED <<loadVars, groupVars, scanVars, locVars, metaVars, heapVars>>

\* the finally clause and the cache store (merge.py:426-429)
FinallyLoading ==
    /\ calls # <<>> /\ ~raising
    /\ Top.pc = "finally_loading"
    /\ patch_ctx' = [finally_loading(patch_ctx) EXCEPT !.cached_data = IF patch_ctx.cache THEN Top.loaded_data ELSE @]
    /\ calls' = SetTop([Top EXCEPT !.pc = "merge_fields"])
    /\ first_loaded' = IF first_loaded = NoData THEN Top.loaded_data ELSE first_loaded
    /\ UNCHANGED <<file_, raising, instance, constructions, loads>>
    /\ UNCHANGED <<loadVars, groupVars, scanVars, locVars, metaVars, heapVars>>

\* merge_fields and the original __init__ (merge.py:431-432)
MergeFields ==
    /\ calls # <<>> /\ ~raising
    /\ Top.pc = "merge_fields"
    /\ calls' = SetTop([Top EXCEPT !.pc = "post_init",
                                   !.self = original_init(Top.args, merge_fields(Top.loaded_data, Top.args, Top.kwargs))])
    /\ UNCHANGED <<patch_ctx, file_, raising, instance, constructions, loads, first_loaded>>
    /\ UNCHANGED <<loadVars, groupVars, scanVars, locVars, metaVars, heapVars>>

\* new_post_init up to the validation (merge.py:446-458): the validation
\* loader constructs the class from asdict(self)
NewPostInit ==
    /\ calls # <<>> /\ ~raising
    /\ Top.pc = "post_init"
    /\ IF patch_ctx.loading \/ patch_ctx.validating
       THEN Return(Top) /\ patch_ctx' = patch_ctx
       ELSE /\ patch_ctx' = [patch_ctx EXCEPT !.validating = TRUE]
            /\ LET call == AllKeywords(Top.self)
               IN  calls' = Append(SetTop([Top EXCEPT !.pc = "validating"]), Frame(call.args, call.kwargs))
            /\ instance' = instance
    /\ UNCHANGED <<file_, raising, constructions, loads, first_loaded>>
    /\ UNCHANGED <<loadVars, groupVars, scanVars, locVars, metaVars, heapVars>>

\* the validation loader returns or raises; the finally clause
\* (merge.py:459-466)
Validated ==
    /\ calls # <<>> /\ ~raising
    /\ Top.pc = "validated"
    /\ \/ /\ patch_ctx' = finally_validating(patch_ctx)
          /\ Return(Top)
          /\ raising' = raising
       \/ /\ raising' = TRUE
          /\ UNCHANGED <<patch_ctx, calls, instance>>
    /\ UNCHANGED <<file_, constructions, loads, first_loaded>>
    /\ UNCHANGED <<loadVars, groupVars, scanVars, locVars, metaVars, heapVars>>

\* an exception leaves the innermost call through its finally clause
Unwind ==
    /\ calls # <<>> /\ raising
    /\ patch_ctx' = IF Top.pc = "load_and_merge" THEN finally_loading(patch_ctx)
                    ELSE IF Top.pc \in {"validating", "validated"} THEN finally_validating(patch_ctx)
                    ELSE patch_ctx
    /\ calls' = Below
    /\ IF Len(calls) = 1
       THEN /\ raising' = FALSE
            /\ instance' = [self |-> NoData, raised |-> TRUE, args |-> Top.args, kwargs |-> Top.kwargs]
       ELSE UNCHANGED <<raising, instance>>
    /\ UNCHANGED <<file_, constructions, loads, first_loaded>>
    /\ UNCHANGED <<loadVars, groupVars, scanVars, locVars, metaVars, heapVars>>

NextPatch ==
    \/ Construct \/ ChangeFile \/ NewInit \/ LoadAndMerge \/ FinallyLoading
    \/ MergeFields \/ NewPostInit \/ Validated \/ Unwind

SpecPatch == InitPatch /\ [][NextPatch]_vars

(***************************************************************************)
(* CharPathFinder.find_line_range, one iteration of its loop at a time     *)
(* (char_base.py:33-78).  cursor holds the locals of the call.             *)
(***************************************************************************)
Cursor(pos, line, stack, last_key, running) ==
    [pos |-> pos, line |-> line, stack |-> stack, last_key |-> last_key, running |-> running]

\* one pass through the body of `while pos < length`: the locals after it
\* and, when the pass returns, what it returns
char_step(fmt, s, cur, target) ==
    LET length == Len(s)
        pos == cur.pos
        line == cur.line
        stack == cur.stack
        ch == At(s, pos)
        noise == skip_noise(fmt, s, pos, line, length)
        parsed == try_parse_key(fmt, s, pos, line, length, stack, target)
        Continue(c) == [cursor |-> c, located |-> NotFound]
    IN  IF noise.some THEN Continue(Cursor(noise.pos, noise.line, stack, cur.last_key, TRUE))
        ELSE IF ch \in {"{", "["}
        THEN Continue(Cursor(pos + 1, line,
                 Append(increment_parent_array(stack), StackEntry(cur.last_key, ch = "[", 0 - 1)), None, TRUE))
        ELSE IF ch \in {"}", "]"}
        THEN Continue(Cursor(pos + 1, line,
                 IF stack # <<>> THEN SubSeq(stack, 1, Len(stack) - 1) ELSE stack, None, TRUE))
        ELSE IF parsed.some
        THEN IF parsed.found
             THEN [cursor |-> Cursor(pos, line, stack, cur.last_key, FALSE),
                   located |-> Found(LineRange(parsed.line,
                                   find_value_end_line(fmt, s, parsed.pos, length, parsed.line)))]
             ELSE Continue(Cursor(parsed.pos, parsed.line, parsed.stack, parsed.last_key, TRUE))
        ELSE Continue(Cursor(skip_scalar(s, pos, length), line, increment_parent_array(stack), cur.last_key, TRUE))

\* texts with arrays of scalars, strings, arrays and objects
JsonArrays ==
    {[text |-> <<"\"", "f", "\"", ":", " ", "[", "1", ",", " ", "\"", "x", "\"", ",", " ", "[", "2", ",", " ",
                 "{", "\"", "a", "\"", ":", " ", "6", "}", "]", ",", "\n", "{", "\"", "a", "\"", ":", " ", "7", "}", "]">>,
      keys |-> {[path |-> <<<<"f">>>>, line |-> 0, last |-> 1, kind |-> "container"],
                [path |-> <<<<"f">>, <<"2">>, <<"1">>, <<"a">>>>, line |-> 0, last |-> 0, kind |-> "scalar"],
                [path |-> <<<<"f">>, <<"3">>, <<"a">>>>, line |-> 1, last |-> 1, kind |-> "scalar"]},
      decoys |-> {}, header |-> FALSE, section |-> <<>>, malformed |-> FALSE]}

Json5Arrays ==
    {[text |-> <<"f", ":", " ", "[", "1", ",", " ", "'", "x", "'", ",", " ", "[", "t", ",", " ",
                 "{", "a", ":", " ", "6", "}", "]", ",", " ", "/", "/", " ", ",", "\n", "{", "a", ":", " ", "7", "}", ",", "]">>,
      keys |-> {[path |-> <<<<"f">>>>, line |-> 0, last |-> 1, kind |-> "container"],
                [path |-> <<<<"f">>, <<"2">>, <<"1">>, <<"a">>>>, line |-> 0, last |-> 0, kind |-> "scalar"],
                [path |-> <<<<"f">>, <<"3">>, <<"a">>>>, line |-> 1, last |-> 1, kind |-> "scalar"]},
      decoys |-> {}, header |-> FALSE, section |-> <<>>, malformed |-> FALSE]}

Arrays(fmt) == IF fmt = "json" THEN JsonArrays ELSE Json5Arrays

\* one entry of the menu, alone or beside an entry with arrays
CharLayouts(fmt) ==
    {<<e>> : e \in Menu(fmt) \cup Arrays(fmt)}
    \cup {<<e, f>> : e \in Menu(fmt), f \in Arrays(fmt)}
    \cup {<<f, e>> : e \in Menu(fmt), f \in Arrays(fmt)}

CharTargets(fmt) ==
    Targets(fmt) \cup {<<<<"f">>, <<"2">>, <<"1">>, <<"a">>>>, <<<<"f">>, <<"3">>, <<"a">>>>, <<<<"z">>>>}

InitCharScan ==
    /\ NoGroups
    /\ NoLocation
    /\ NoSources /\ NoPatch /\ NoHeap
    /\ raw_dicts = <<>>
    /\ source_ctxs = <<>>
    /\ strategy = "LAST_WINS"
    /\ field_merge_map = <<>>
    /\ pc = "failed"
    /\ step_idx = 0
    /\ merged = EmptyDict
    /\ error = NoError
    /\ result = Unbound
    /\ format = "none"
    /\ layout = <<>>
    /\ content = <<>>
    /\ finder = NewFinder
    /\ target_path = <<>>
    /\ located = NotFound
    /\ queries = 0
    /\ cursor = Cursor(0, 1, <<>>, None, FALSE)

\* JsonPathFinder(content), Json5PathFinder(content) (char_base.py:30-31)
CharPathFinderOver(layouts) ==
    /\ format = "none"
    /\ format' \in {"json", "json5"}
    /\ layout' \in layouts[format']
    /\ content' = TextOf(format', layout')
    /\ UNCHANGED <<finder, target_path, located, queries, cursor>>
    /\ UNCHANGED <<loadVars, groupVars, locVars, metaVars, patchVars, heapVars>>

\* find_line_range(target_path) is called (char_base.py:33-39)
CharCallFor(targets) ==
    /\ format # "none"
    /\ ~cursor.running
    /\ target_path' \in targets[format]
    /\ located' = NotFound
    /\ cursor' = Cursor(0, 1, <<>>, None, TRUE)
    /\ UNCHANGED <<format, content, layout, finder, queries>>
    /\ UNCHANGED <<loadVars, groupVars, locVars, metaVars, patchVars, heapVars>>

\* the loop condition fails: return None (char_base.py:76)
CharReturnNone ==
    /\ cursor.running
    /\ cursor.pos >= Len(content)
    /\ cursor' = [cursor EXCEPT !.running = FALSE]
    /\ UNCHANGED <<format, content, layout, finder, target_path, located, queries>>
    /\ UNCHANGED <<loadVars, groupVars, locVars, metaVars, patchVars, heapVars>>

\* one pass through the loop body (char_base.py:41-74)
CharStep ==
    /\ cursor.running
    /\ cursor.pos < Len(content)
    /\ LET after == char_step(format, content, cursor, target_path)
       IN  /\ cursor' = after.cursor
           /\ located' = after.located
    /\ UNCHANGED <<format, content, layout, finder, target_path, queries>>
    /\ UNCHANGED <<loadVars, groupVars, locVars, metaVars, patchVars, heapVars>>

CharPathFinder == CharPathFinderOver([fmt \in {"json", "json5"} |-> CharLayouts(fmt)])
CharCall == CharCallFor([fmt \in {"json", "json5"} |-> CharTargets(fmt)])

NextCharScan == CharPathFinder \/ CharCall \/ CharStep \/ CharReturnNone

SpecCharScan == InitCharScan /\ [][NextCharScan]_vars

\* the loop is the only thing the call does: it is run until it returns
SingleEntry(fmt) == {<<e>> : e \in Menu(fmt) \cup Arrays(fmt)}

\* the empty path, a top-level key, a key inside an array element, an absent key
FewTargets(fmt) == {<<>>, <<<<"a">>>>, <<<<"f">>, <<"3">>, <<"a">>>>, <<<<"z">>>>}

CharPathFinderSingle == CharPathFinderOver([fmt \in {"json", "json5"} |-> SingleEntry(fmt)])
CharCallFew == CharCallFor([fmt \in {"json", "json5"} |-> FewTargets(fmt)])

NextCharScanFair == CharPathFinderSingle \/ CharCallFew \/ CharStep \/ CharReturnNone

SpecCharScanFair == InitCharScan /\ [][NextCharScanFair]_vars /\ WF_vars(CharStep \/ CharReturnNone)

(***************************************************************************)
(* The merge over objects.  deep_merge.py copies, stores and returns       *)
(* references: a tree is told from an equal one by its address in heap.    *)
(* An operation gives the heap it leaves and the address (or the           *)
(* addresses) it returns, and whether it raised.                           *)
(***************************************************************************)
Ret(h, ref) == [heap |-> h, ref |-> ref, raised |-> FALSE]
Raise(h) == [heap |-> h, ref |-> 0, raised |-> TRUE]

\* a new object
Alloc(h, obj) == Ret(Append(h, obj), Len(h) + 1)

\* a heap holds its objects at the addresses 1..Len(h)
IsHeap(h) == DOMAIN h = 1..Len(h)

\* the objects of a parsed tree, children before their parent; the heap an
\* operation is handed is one that has been worked out
RECURSIVE Store(_, _)
RECURSIVE StoreSeq(_, _)
Store(h, tree) ==
    IF ~IsHeap(h) THEN Raise(h)
    ELSE IF tree.k = "dict"
    THEN LET order == items(tree)
             kids == StoreSeq(h, [j \in 1..Len(order) |-> tree.m[order[j]]])
         IN  Alloc(kids.heap, DictV([key \in DOMAIN tree.m |->
                                        kids.refs[CHOOSE j \in 1..Len(order) : order[j] = key]]))
    ELSE IF tree.k = "list"
    THEN LET elems == StoreSeq(h, [j \in 1..Len(tree.v) |-> IntV(tree.v[j])])
         IN  Alloc(elems.heap, ListV(elems.refs))
    ELSE Alloc(h, tree)

StoreSeq(h, trees) ==
    IF trees = <<>> \/ ~IsHeap(h) THEN [heap |-> h, refs |-> <<>>]
    ELSE LET first == Store(h, Head(trees))
             rest == StoreSeq(first.heap, Tail(trees))
         IN  [heap |-> rest.heap, refs |-> <<first.ref>> \o rest.refs]

\* the tree that stands at an address
RECURSIVE Deref(_, _)
Deref(h, ref) ==
    IF h[ref].k = "dict" THEN DictV([key \in DOMAIN h[ref].m |-> Deref(h, h[ref].m[key])])
    ELSE IF h[ref].k = "list" THEN ListV([j \in 1..Len(h[ref].v) |-> Deref(h, h[ref].v[j]).v[1]])
    ELSE h[ref]

\* mutant: result = base, no copy is made
dict_copy_aliases(h, ref) == Ret(h, ref)

\* result = dict(base): a new dict holding the same addresses
dict_copy(h, ref) == Alloc(h, h[ref])

\* result[key] = value
setitem(h, ref, name, item) == [h EXCEPT ![ref].m = (name :> item) @@ @]

\* _deduplicate_list over addresses: == compares the objects, not the addresses
RECURSIVE deduplicate_refs(_, _, _)
deduplicate_refs(h, refs, seen) ==
    IF refs = <<>> THEN seen
    ELSE IF \E j \in 1..Len(seen) : Deref(h, seen[j]) = Deref(h, Head(refs))
         THEN deduplicate_refs(h, Tail(refs), seen)
         ELSE deduplicate_refs(h, Tail(refs), Append(seen, Head(refs)))

\* list(b) + list(o) and its three variants: a new list of the same addresses
heap_apply_list_merge(h, base, override, strat) ==
    IF ~(h[base].k = "list" /\ h[override].k = "list") THEN Raise(h)
    ELSE IF strat = "APPEND" THEN Alloc(h, ListV(h[base].v \o h[override].v))
    ELSE IF strat = "APPEND_UNIQUE" THEN Alloc(h, ListV(deduplicate_refs(h, h[base].v \o h[override].v, <<>>)))
    ELSE IF strat = "PREPEND" THEN Alloc(h, ListV(h[override].v \o h[base].v))
    ELSE Alloc(h, ListV(deduplicate_refs(h, h[override].v \o h[base].v, <<>>)))

\* apply_field_merge: FIRST_WINS, LAST_WINS, max and min return one of their arguments
heap_apply_field_merge(h, base, override, strat) ==
    IF strat = "FIRST_WINS" THEN Ret(h, base)
    ELSE IF strat = "LAST_WINS" THEN Ret(h, override)
    ELSE IF strat \in {"APPEND", "APPEND_UNIQUE", "PREPEND", "PREPEND_UNIQUE"}
         THEN heap_apply_list_merge(h, base, override, strat)
    ELSE IF IsTypeError(apply_field_merge(Deref(h, base), Deref(h, override), strat)) THEN Raise(h)
    ELSE IF apply_field_merge(Deref(h, base), Deref(h, override), strat) = Deref(h, base) THEN Ret(h, base)
    ELSE Ret(h, override)

\* deep_merge_last_wins and deep_merge_first_wins: they differ in what they
\* return when the two are not both dicts
RECURSIVE heap_deep_merge(_, _, _, _, _, _)
RECURSIVE heap_merge_items(_, _, _, _, _, _, _)
heap_deep_merge(h, base, override, strat, fmm, path) ==
    IF has_field_rule(fmm, path)
    THEN heap_apply_field_merge(h, base, override, fmm[Dotted(path)])
    ELSE IF h[base].k = "dict" /\ h[override].k = "dict"
    THEN heap_merge_items(dict_copy(h, base).heap, dict_copy(h, base).ref, override,
                          items(h[override]), strat, fmm, path)
    ELSE Ret(h, IF strat = "FIRST_WINS" THEN base ELSE override)

\* for key, value in override.items(): ...
heap_merge_items(h, res, override, todo, strat, fmm, path) ==
    IF todo = <<>> THEN Ret(h, res)
    ELSE IF Head(todo) \in DOMAIN h[res].m
    THEN LET sub == heap_deep_merge(h, h[res].m[Head(todo)], h[override].m[Head(todo)],
                                    strat, fmm, Append(path, Head(todo)))
         IN  IF sub.raised THEN sub
             ELSE heap_merge_items(setitem(sub.heap, res, Head(todo), sub.ref), res, override,
                                   Tail(todo), strat, fmm, path)
    ELSE heap_merge_items(setitem(h, res, Head(todo), h[override].m[Head(todo)]), res, override,
                          Tail(todo), strat, fmm, path)

\* the trees of the sources: nested maps, lists, and keys two sources share
HeapTrees ==
    {EmptyDict,
     DictV("a" :> DictV("b" :> IntV(1))),
     DictV("a" :> DictV("b" :> IntV(2))),
     DictV(("a" :> DictV("b" :> IntV(1))) @@ ("b" :> ListV(<<1>>))),
     DictV(("a" :> EmptyDict) @@ ("b" :> ListV(<<1, 2>>))),
     DictV(("a" :> IntV(1)) @@ ("b" :> IntV(1)))}

HeapFieldMergeMaps ==
    FieldMergeMaps \cup {(<<"b">> :> "APPEND_UNIQUE"), (<<"b">> :> "PREPEND"), (<<"b">> :> "MAX")}

\* load_sources has returned and _merge_raw_dicts has bound merged = {}
InitHeap ==
    /\ raw_dicts \in UNION {[1..n -> HeapTrees] : n \in 1..MaxSources}
    /\ source_ctxs = ContextsOf(raw_dicts)
    /\ strategy \in {"LAST_WINS", "FIRST_WINS", "RAISE_ON_CONFLICT"}
    /\ field_merge_map \in HeapFieldMergeMaps
    /\ pc = "loaded"
    /\ step_idx = 0
    /\ merged = EmptyDict
    /\ error = NoError
    /\ result = Unbound
    /\ loaded_heap = StoreSeq(<<>>, raw_dicts).heap
    /\ raw_refs = StoreSeq(<<>>, raw_dicts).refs
    /\ heap = Alloc(loaded_heap, EmptyDict).heap
    /\ merged_ref = Len(heap)
    /\ NoGroups /\ NoScan /\ NoLocation /\ NoSources /\ NoPatch

\* raise_on_conflict reads the trees and builds its own lists: it stores nothing into a tree
HeapRaiseOnConflict ==
    /\ pc = "loaded"
    /\ strategy = "RAISE_ON_CONFLICT"
    /\ LET conflict_errors == raise_on_conflict([i \in 1..Len(raw_refs) |-> Deref(heap, raw_refs[i])],
                                                source_ctxs, field_merge_map)
       IN  IF conflict_errors = <<>>
           THEN /\ pc' = "merging"
                /\ error' = error
           ELSE /\ pc' = "failed"
                /\ error' = [kind |-> "MergeConflictError", errors |-> conflict_errors]
    /\ UNCHANGED <<raw_dicts, source_ctxs, strategy, field_merge_map, step_idx, merged, result>>
    /\ UNCHANGED <<groupVars, scanVars, locVars, metaVars, patchVars, heapVars>>

\* one iteration of the loop of _merge_raw_dicts, on the objects
HeapMergeStep ==
    /\ \/ pc = "merging"
       \/ pc = "loaded" /\ strategy # "RAISE_ON_CONFLICT"
    /\ step_idx < Len(raw_refs)
    /\ LET after == heap_deep_merge(heap, merged_ref, raw_refs[step_idx + 1],
                                    IF strategy = "FIRST_WINS" THEN "FIRST_WINS" ELSE "LAST_WINS",
                                    field_merge_map, <<>>)
       IN  /\ heap' = after.heap
           /\ IF after.raised
              THEN /\ pc' = "failed"
                   /\ error' = [kind |-> "TypeError", errors |-> <<>>]
                   /\ UNCHANGED <<merged, merged_ref, step_idx>>
              ELSE /\ pc' = "merging"
                   /\ merged_ref' = after.ref
                   /\ merged' = Deref(after.heap, after.ref)
                   /\ step_idx' = step_idx + 1
                   /\ error' = error
    /\ UNCHANGED <<raw_dicts, source_ctxs, strategy, field_merge_map, result, loaded_heap, raw_refs>>
    /\ UNCHANGED <<groupVars, scanVars, locVars, metaVars, patchVars>>

NextHeap == HeapRaiseOnConflict \/ HeapMergeStep

SpecHeap == InitHeap /\ [][NextHeap]_vars
(***************************************************************************)
(* Claims about merging and conflict detection                             *)
(***************************************************************************)
Paths == {<<x>> : x \in Keys} \cup {<<x, y>> : x \in Keys, y \in Keys}

\* the value of tree t at path p, SENTINEL when a segment is missing or its parent is no dict
RECURSIVE ValueAt(_, _)
ValueAt(t, p) ==
    IF p = <<>> THEN t
    ELSE IF t.k = "dict" /\ Head(p) \in DOMAIN t.m THEN ValueAt(t.m[Head(p)], Tail(p))
    ELSE SENTINEL

Contributors(dicts, p) == {i \in 1..Len(dicts) : ValueAt(dicts[i], p) # SENTINEL}
ContributedValues(dicts, p) == {ValueAt(dicts[i], p) : i \in Contributors(dicts, p)}
LeafSuppliers(dicts, p) == {i \in Contributors(dicts, p) : ValueAt(dicts[i], p).k # "dict"}

SetMax(S) == CHOOSE x \in S : \A y \in S : y <= x
SetMin(S) == CHOOSE x \in S : \A y \in S : x <= y

ShapeConsistent(dicts) ==
    \A p \in Paths :
        \/ \A v \in ContributedValues(dicts, p) : v.k = "dict"
        \/ \A v \in ContributedValues(dicts, p) : v.k # "dict"

Folded == SubSeq(raw_dicts, 1, step_idx)

\* C1: with no per-field rules and sources whose values at every shared path
\* are all maps or all non-maps, the tree folded so far holds every leaf path
\* of every folded source, with the value of the last supplying source under
\* LAST_WINS and of the first supplying source under FIRST_WINS.
C1_FoldKeepsLeaves ==
    (strategy \in {"LAST_WINS", "FIRST_WINS"} /\ field_merge_map = <<>> /\ ShapeConsistent(Folded))
    => \A p \in Paths :
           LeafSuppliers(Folded, p) # {} =>
               ValueAt(merged, p) =
                   ValueAt(raw_dicts[IF strategy = "LAST_WINS"
                                     THEN SetMax(LeafSuppliers(Folded, p))
                                     ELSE SetMin(LeafSuppliers(Folded, p))], p)

C1_Witness ==
    /\ strategy = "FIRST_WINS" /\ field_merge_map = <<>>
    /\ step_idx = 3 /\ ShapeConsistent(Folded)
    /\ Cardinality(LeafSuppliers(Folded, <<"a", "b">>)) >= 2
    /\ Cardinality(ContributedValues(Folded, <<"a", "b">>)) = 2
    /\ Cardinality(LeafSuppliers(Folded, <<"b">>)) = 1
    /\ ValueAt(merged, <<"a", "b">>) = IntV(2)

ReportedPaths ==
    IF error.kind = "MergeConflictError"
    THEN {error.errors[c].field_path : c \in 1..Len(error.errors)}
    ELSE {}

UnderRule(fmm, p) == \E n \in 1..Len(p) : SubSeq(p, 1, n) \in DOMAIN fmm

\* the four conditions of the claim, with its rider on ruled paths
ContestedAt(dicts, fmm, p) ==
    /\ Cardinality(Contributors(dicts, p)) >= 2
    /\ ~UnderRule(fmm, p)
    /\ \E v \in ContributedValues(dicts, p) : v.k # "dict"
    /\ Cardinality(ContributedValues(dicts, p)) > 1

AncestorsAllMaps(dicts, p) ==
    \A n \in 1..(Len(p) - 1) : \A v \in ContributedValues(dicts, SubSeq(p, 1, n)) : v.k = "dict"

DetectionRan == strategy = "RAISE_ON_CONFLICT" /\ pc # "loaded"

\* C2 as stated: a path is reported exactly when two or more sources have a
\* key there, no field strategy covers it, the contributed values are not all
\* maps and are not all equal.
C2_ReportedIffContested ==
    DetectionRan => \A p \in Paths : (p \in ReportedPaths <=> ContestedAt(raw_dicts, field_merge_map, p))

\* C2 amended: ... and, at every proper ancestor of the path, every
\* contributed value is a map (a mixed ancestor is itself the conflict).
C2_ReportedIffContestedBelowMaps ==
    DetectionRan =>
        \A p \in Paths :
            p \in ReportedPaths <=>
                (ContestedAt(raw_dicts, field_merge_map, p) /\ AncestorsAllMaps(raw_dicts, p))

C2_Witness ==
    /\ DetectionRan /\ Len(raw_dicts) = 3
    /\ ReportedPaths = {<<"a">>}
    /\ ContestedAt(raw_dicts, field_merge_map, <<"a", "b">>)

\* C3: every reported conflict carries one location per source that has a
\* value at the conflicting path, in source order, each resolved against
\* that source's own context and raw text.
C3_LocationsOfContributors ==
    error.kind = "MergeConflictError" =>
        \A c \in 1..Len(error.errors) :
            LET e == error.errors[c]
                S == Contributors(raw_dicts, e.field_path)
            IN  /\ Len(e.locations) = Cardinality(S)
                /\ \A j \in 1..Len(e.locations) :
                       LET i == CHOOSE x \in S : Cardinality({y \in S : y < x}) = j - 1
                       IN  e.locations[j] =
                               resolve_source_location(e.field_path, source_ctxs[i].ctx, source_ctxs[i].content)

ConflictPaths == {p \in Paths : ContestedAt(raw_dicts, field_merge_map, p) /\ AncestorsAllMaps(raw_dicts, p)}

RECURSIVE FoldTo(_)
FoldTo(i) ==
    IF i = 0 THEN EmptyDict
    ELSE merge_step(FoldTo(i - 1), raw_dicts[i], strategy, field_merge_map)

FilterPaths(paths, S) == FilterSeq(paths, S)

ChangedOf(group, base, source) ==
    {q \in {group[j] : j \in 1..Len(group)} :
        ValueAt(source, q) # SENTINEL /\ ValueAt(source, q) # ValueAt(base, q)}

UnchangedOf(group, base, source) ==
    {q \in {group[j] : j \in 1..Len(group)} :
        ValueAt(source, q) = SENTINEL \/ ValueAt(source, q) = ValueAt(base, q)}

PartlyOverridden(group, base, source) ==
    ChangedOf(group, base, source) # {} /\ UnchangedOf(group, base, source) # {}

GroupsPartlyOverridden(i) ==
    {g \in 1..Len(field_group_paths) :
        PartlyOverridden(field_group_paths[g], FoldTo(i), raw_dicts[i + 1])}

\* C5: validating a source classifies each path of each group as unchanged
\* (absent from the source, or equal to the merged-so-far value) or changed;
\* a violation is recorded for exactly the groups with both classes
\* non-empty, and a source every group of which is wholly changed or wholly
\* unchanged passes.
C5_ViolationIffPartlyOverridden ==
    /\ \A i \in 0..(step_idx - 1) : GroupsPartlyOverridden(i) = {}
    /\ error.kind = "FieldGroupError" =>
           /\ GroupsPartlyOverridden(step_idx) # {}
           /\ Len(error.errors) = Cardinality(GroupsPartlyOverridden(step_idx))
           /\ \A g \in GroupsPartlyOverridden(step_idx) :
                  \E n \in 1..Len(error.errors) :
                      LET e == error.errors[n]
                          group == field_group_paths[g]
                      IN  /\ e.group_fields = group
                          /\ e.source_index = step_idx
                          /\ e.changed_fields = FilterPaths(group, ChangedOf(group, merged, raw_dicts[step_idx + 1]))
                          /\ e.unchanged_fields = FilterPaths(group, UnchangedOf(group, merged, raw_dicts[step_idx + 1]))
    /\ pc = "groups" /\ step_idx < Len(raw_dicts) /\ GroupsPartlyOverridden(step_idx) = {} =>
           validate_field_groups(merged, raw_dicts[step_idx + 1], field_group_paths, step_idx, field_origins) = <<>>

C5_Witness ==
    /\ error.kind = "FieldGroupError" /\ step_idx = 1
    /\ Len(error.errors) = 1
    /\ error.errors[1].changed_fields = <<<<"a", "b">>>>
    /\ error.errors[1].unchanged_fields = <<<<"b">>>>
    /\ ValueAt(raw_dicts[2], <<"b">>) = SENTINEL

\* C6: the error raised for field groups reports the violations of every
\* source that partly overrides a group, not only those of the first such
\* source.
C6_EverySourceReported ==
    error.kind = "FieldGroupError" =>
        \A i \in 0..(Len(raw_dicts) - 1) :
            GroupsPartlyOverridden(i) # {} =>
                \E n \in 1..Len(error.errors) : error.errors[n].source_index = i


\* the fold of _merge_raw_dicts over a list of trees with no per-field rules
RECURSIVE FoldOf(_, _)
FoldOf(dicts, strat) ==
    IF dicts = <<>> THEN EmptyDict
    ELSE merge_step(FoldOf(SubSeq(dicts, 1, Len(dicts) - 1), strat), dicts[Len(dicts)], strat, <<>>)

\* the orders a list of n sources can be given in
Orders(n) == {p \in [1..n -> 1..n] : \A i, j \in 1..n : p[i] = p[j] => i = j}

NoConflictNoRules == field_merge_map = <<>> /\ collect_conflicts(raw_dicts, <<>>, <<>>) = <<>>

\* C28: when conflict detection with no per-field rules finds no conflict
\* among the sources, the merged tree does not depend on their order: it is
\* the LAST_WINS fold and the FIRST_WINS fold of the sources in any order.
C28_NoConflictOrderFree ==
    (NoConflictNoRules /\ step_idx = Len(raw_dicts))
        => \A p \in Orders(Len(raw_dicts)) : \A strat \in {"LAST_WINS", "FIRST_WINS"} :
               FoldOf([i \in 1..Len(raw_dicts) |-> raw_dicts[p[i]]], strat) = merged

\* three sources without conflict have been folded, two of them different
\* and sharing the key of a nested map
C28_Witness ==
    /\ NoConflictNoRules
    /\ step_idx = Len(raw_dicts)
    /\ Len(raw_dicts) = 3
    /\ \E i, j \in 1..3 :
        /\ raw_dicts[i] # raw_dicts[j]
        /\ "a" \in DOMAIN raw_dicts[i].m /\ "a" \in DOMAIN raw_dicts[j].m
        /\ raw_dicts[i].m["a"] # raw_dicts[j].m["a"]
(***************************************************************************)
(* Claims about the scanners.  The lines of a text are known from its      *)
(* layout: the entries stand one after the other.                          *)
(***************************************************************************)
EntryLines(entry) == 1 + count(entry.text, <<"\n">>)

FirstLine == 1 + count(Preamble(format), <<"\n">>)

RECURSIVE StartOf(_)
StartOf(n) == IF n = 1 THEN FirstLine ELSE StartOf(n - 1) + EntryLines(layout[n - 1])

\* the section an INI or TOML entry stands in: that of the last header before it
RECURSIVE SectionOf(_)
SectionOf(n) ==
    IF n = 1 THEN (IF format = "ini" THEN <<<<"s">>>> ELSE <<>>)
    ELSE IF layout[n - 1].header THEN layout[n - 1].section
    ELSE SectionOf(n - 1)

\* the keys of the text: path, line of the key, last line of its value, kind of value
KeysOfText ==
    UNION {{[path |-> SectionOf(n) \o key.path,
             line |-> StartOf(n) + key.line,
             last |-> StartOf(n) + key.last,
             kind |-> key.kind] : key \in layout[n].keys} : n \in 1..Len(layout)}

\* the lines that hold a key name inside a string, a multi-line value or a comment only
DecoysOfText ==
    UNION {{[name |-> decoy.name, line |-> StartOf(n) + decoy.line, kind |-> decoy.kind] :
               decoy \in layout[n].decoys} : n \in 1..Len(layout)}

Asked == format # "none" /\ queries = 1

\* the one key of the text at the asked path, when there is exactly one
TargetKeys == {key \in KeysOfText : key.path = target_path}
TargetKey == CHOOSE key \in TargetKeys : TRUE

\* C7: a fresh finder of any of the five formats reports a key whose value
\* is a scalar on the key's own line as LineRange(L, L), L the line of the
\* key, whatever stands before the key.
C7_ScalarKeyOnItsLine ==
    (Asked /\ Cardinality(TargetKeys) = 1 /\ TargetKey.kind = "scalar")
        => located = Found(LineRange(TargetKey.line, TargetKey.line))

\* C8: for a JSON or JSON5 key whose value is a container, the reported
\* range starts on the key's line and ends on the line of the bracket that
\* closes the container.
C8_ContainerRange ==
    (Asked /\ format \in {"json", "json5"} /\ Cardinality(TargetKeys) = 1 /\ TargetKey.kind = "container")
        => located = Found(LineRange(TargetKey.line, TargetKey.last))

\* C9: no finder reports a line that holds the asked key name only inside a
\* string value: after a separator in a string, as a string element of a
\* multi-line array, or on a continuation line of an INI value.
C9_NoKeyInsideString ==
    (Asked /\ located.found)
        => ~\E decoy \in DecoysOfText :
               /\ decoy.kind \in {"string", "element", "continuation"}
               /\ decoy.name = target_path[Len(target_path)]
               /\ decoy.line = located.start
               /\ ~\E key \in TargetKeys : key.line = decoy.line

\* C10: a TOML or YAML finder never takes a line inside a multi-line string
\* or block scalar for a key, also when the asked path's parent is the key
\* that owns the multi-line value.
C10_NoKeyInsideMultiline ==
    (Asked /\ format \in {"toml", "yaml"} /\ located.found)
        => ~\E decoy \in DecoysOfText :
               /\ decoy.kind = "multiline"
               /\ decoy.name = target_path[Len(target_path)]
               /\ decoy.line = located.start


\* C11: find_line_range of every scanner is total: for any text, well or
\* ill formed, and any target path, the empty list of segments included, it
\* returns a LineRange or None and never leaves by an exception.
C11_FindLineRangeNeverRaises ==
    Asked => ~IsRaised(located)

\* a second reading of the bracket depth: brackets count outside quoted
\* substrings only, and inside one a backslash takes the next character with it
RECURSIVE DepthOutsideQuotes(_, _, _)
DepthOutsideQuotes(text, k, state) ==
    IF k > Len(text) THEN state
    ELSE IF state.in_string # None
    THEN IF text[k] = "\\" THEN DepthOutsideQuotes(text, k + 2, state)
         ELSE IF <<text[k]>> = state.in_string
         THEN DepthOutsideQuotes(text, k + 1, [state EXCEPT !.in_string = None])
         ELSE DepthOutsideQuotes(text, k + 1, state)
    ELSE IF text[k] \in {"\"", "'"} THEN DepthOutsideQuotes(text, k + 1, [state EXCEPT !.in_string = <<text[k]>>])
    ELSE IF text[k] \in {"{", "["} THEN DepthOutsideQuotes(text, k + 1, [state EXCEPT !.depth = @ + 1])
    ELSE IF text[k] \in {"}", "]"} THEN DepthOutsideQuotes(text, k + 1, [state EXCEPT !.depth = @ - 1])
    ELSE DepthOutsideQuotes(text, k + 1, state)

\* the first line from line n on at whose end the depth is zero, 0 when there is none
RECURSIVE ClosingLine(_, _, _, _)
ClosingLine(rows, n, rest, state) ==
    LET after == DepthOutsideQuotes(rest, 1, state)
    IN  IF after.depth = 0 THEN n
        ELSE IF n >= Len(rows) THEN 0
        ELSE ClosingLine(rows, n + 1, rows[n + 1], after)

ValueOn(row) == strip(partition(strip(row), <<"=">>).tail)

ClosingLineOf(rows, n) == ClosingLine(rows, n, ValueOn(rows[n]), ContainerState(0, None))

TomlContainerAsked ==
    /\ Asked
    /\ format = "toml"
    /\ Cardinality(TargetKeys) = 1
    /\ TargetKey.kind = "container"
    /\ located.found
    /\ located.start = TargetKey.line

\* C23: the range reported for a TOML key whose value is an inline table or
\* array ends on the first line at whose end the bracket depth is back at
\* zero, brackets counting outside quoted substrings only and a quote after
\* a backslash not closing its substring; it ends on the key's own line when
\* the depth is zero there.
C23_InlineContainerEndsAtDepthZero ==
    (TomlContainerAsked /\ ClosingLineOf(splitlines(content), located.start) # 0)
        => located.end = ClosingLineOf(splitlines(content), located.start)

\* what a finder constructed anew over the text returns for the asked path
FreshAnswer ==
    IF format \in {"json", "json5"} THEN char_find_line_range(format, content, target_path)
    ELSE line_find_line_range(format, content, target_path, NewFinder).located

\* C26: find_line_range is a pure query: every query on a finder, the later
\* ones included, returns what a finder constructed anew over the same text
\* returns for that path; the section, the open multi-line string and the
\* indentation stack left by an earlier query change no later answer.
C26_QueryIsPure ==
    (format # "none" /\ queries >= 1) => located = FreshAnswer

(***************************************************************************)
(* Properties of the per-field strategies                                  *)
(***************************************************************************)
ListStrategies == {"APPEND", "APPEND_UNIQUE", "PREPEND", "PREPEND_UNIQUE"}

\* the strategy registered for the path, "none" without a rule
RuleAt(p) == IF Dotted(p) \in DOMAIN field_merge_map THEN field_merge_map[Dotted(p)] ELSE "none"

\* the source the next merge step folds in
Incoming == raw_dicts[step_idx + 1]

\* a merge step is taken and does not fail
Stepped == step_idx' = step_idx + 1 /\ pc' = "merging"

\* s without the elements equal to an earlier element
RECURSIVE FirstOccurrencesFrom(_, _)
FirstOccurrencesFrom(s, i) ==
    IF i > Len(s) THEN <<>>
    ELSE (IF \E j \in 1..(i - 1) : s[j] = s[i] THEN <<>> ELSE <<s[i]>>) \o FirstOccurrencesFrom(s, i + 1)

FirstOccurrences(s) == FirstOccurrencesFrom(s, 1)

ExpectedList(strat, base, override) ==
    IF strat = "APPEND" THEN base \o override
    ELSE IF strat = "PREPEND" THEN override \o base
    ELSE IF strat = "APPEND_UNIQUE" THEN FirstOccurrences(base \o override)
    ELSE FirstOccurrences(override \o base)

ListStepAtB ==
    (/\ Stepped
     /\ RuleAt(<<"b">>) \in ListStrategies
     /\ isinstance_list(ValueAt(merged, <<"b">>))
     /\ isinstance_list(ValueAt(Incoming, <<"b">>)))
        => ValueAt(merged', <<"b">>) =
               ListV(ExpectedList(RuleAt(<<"b">>), ValueAt(merged, <<"b">>).v, ValueAt(Incoming, <<"b">>).v))

\* the lists the folded sources hold at b, one after another in source order
RECURSIVE ConcatAtB(_)
ConcatAtB(dicts) ==
    IF dicts = <<>> THEN <<>>
    ELSE ValueAt(Head(dicts), <<"b">>).v \o ConcatAtB(Tail(dicts))

AppendFoldAtB ==
    (/\ RuleAt(<<"b">>) = "APPEND"
     /\ step_idx >= 1
     /\ \A i \in 1..step_idx : isinstance_list(ValueAt(raw_dicts[i], <<"b">>)))
        => ValueAt(merged, <<"b">>) = ListV(ConcatAtB(Folded))

\* C12: with a list strategy at a path both sides hold a list at, one merge
\* step yields base then override (APPEND), override then base (PREPEND),
\* or that concatenation without the elements equal to an earlier one
\* (_UNIQUE); APPEND folded over the sources yields their lists one after
\* another in source order.
C12_ListStrategies == [][ListStepAtB]_vars /\ []AppendFoldAtB

C12_Witness ==
    /\ RuleAt(<<"b">>) = "APPEND_UNIQUE"
    /\ step_idx = 2
    /\ ValueAt(raw_dicts[1], <<"b">>) = ListV(<<2, 2>>)
    /\ ValueAt(raw_dicts[2], <<"b">>) = ListV(<<1, 2>>)
    /\ ValueAt(merged, <<"b">>) = ListV(<<2, 1>>)

\* a number or a string of the tree type, whose scalars are string, number,
\* bool and null
IsNumberOrString(x) == x.k \in {"int", "float", "str"}

\* the strategy cannot be applied to the two values
Incompatible(strat, base, override) ==
    \/ strat \in ListStrategies /\ ~(isinstance_list(base) /\ isinstance_list(override))
    \/ strat \in {"MAX", "MIN"} /\ ~(IsNumberOrString(base) /\ IsNumberOrString(override))

\* the load failed on this step with a type error naming the two types, and
\* no merged tree came out of it
FailedNaming(base, override) ==
    /\ pc' = "failed"
    /\ error'.kind = "TypeError"
    /\ \E i \in 1..Len(error'.errors) :
          error'.errors[i].base_type = base.k /\ error'.errors[i].override_type = override.k
    /\ merged' = merged
    /\ result' = Unbound

IncompatibleStepAtB ==
    (/\ MergeStep
     /\ Cardinality(DOMAIN field_merge_map) = 1
     /\ ValueAt(merged, <<"b">>) # SENTINEL
     /\ ValueAt(Incoming, <<"b">>) # SENTINEL
     /\ Incompatible(RuleAt(<<"b">>), ValueAt(merged, <<"b">>), ValueAt(Incoming, <<"b">>)))
        => FailedNaming(ValueAt(merged, <<"b">>), ValueAt(Incoming, <<"b">>))

\* C13: a field strategy applied to incompatible values fails the load with
\* a type error naming the types of both values and yields no merged tree:
\* the list strategies unless both values are lists, MAX and MIN unless both
\* values are numbers or strings.
C13_IncompatibleValuesFail == [][IncompatibleStepAtB]_vars

\* the ruled paths whose strategy cannot be applied in the pending step
FailingRules ==
    {p \in DOMAIN field_merge_map :
        /\ ValueAt(merged, p) # SENTINEL
        /\ ValueAt(Incoming, p) # SENTINEL
        /\ Incompatible(field_merge_map[p], ValueAt(merged, p), ValueAt(Incoming, p))}

\* C14: when the strategies at two different paths are both applied to
\* incompatible types in one load, the failure reports both type errors.
C14_EveryTypeErrorReported ==
    (/\ pc = "failed"
     /\ error.kind = "TypeError"
     /\ DOMAIN field_merge_map = {<<"a">>, <<"b">>})
        => Len(error.errors) = Cardinality(FailingRules)

\* no proper prefix of the path has a rule of its own
NoRuledAncestor(p) == \A n \in 1..(Len(p) - 1) : SubSeq(p, 1, n) \notin DOMAIN field_merge_map

\* result is what the strategy alone makes of the two whole values
AppliedWhole(strat, base, override, result_) ==
    IF strat = "FIRST_WINS" THEN result_ = base
    ELSE IF strat = "LAST_WINS" THEN result_ = override
    ELSE IF strat \in ListStrategies THEN result_ = ListV(ExpectedList(strat, base.v, override.v))
    ELSE /\ result_ \in {base, override}
         /\ \A other \in {base, override} :
               IF strat = "MAX" THEN ~lex_less(result_.v, other.v) ELSE ~lex_less(other.v, result_.v)

\* the rules without the one registered for the path
WithoutRule(p) == [q \in DOMAIN field_merge_map \ {p} |-> field_merge_map[q]]

RuleOwnsPath(p) ==
    LET base == ValueAt(merged, p)
        override == ValueAt(Incoming, p)
    IN  IF base # SENTINEL /\ override # SENTINEL
        THEN AppliedWhole(field_merge_map[p], base, override, ValueAt(merged', p))
        ELSE merged' = merge_step(merged, Incoming, strategy, WithoutRule(p))

RuledStep ==
    Stepped => \A p \in DOMAIN field_merge_map : NoRuledAncestor(p) => RuleOwnsPath(p)

SameTreeLoad ==
    /\ field_merge_map = <<>>
    /\ Len(raw_dicts) \in {1, 2}
    /\ \A i \in 1..Len(raw_dicts) : raw_dicts[i] = raw_dicts[1]

\* C16: under each of the three global strategies and without per-field
\* rules, merging the source list [T, T] or [T] of a map tree T detects no
\* conflict, raises no type error and yields T.
C16_SameTreeMergesToItself ==
    SameTreeLoad =>
        /\ error.kind \notin {"MergeConflictError", "TypeError"}
        /\ step_idx = Len(raw_dicts) => merged = raw_dicts[1]
        /\ pc = "done" => result = raw_dicts[1]

C16_Witness ==
    /\ SameTreeLoad
    /\ strategy = "RAISE_ON_CONFLICT"
    /\ raw_dicts = <<DictV(("a" :> DictV("b" :> IntV(1))) @@ ("b" :> ListV(<<1>>))),
                     DictV(("a" :> DictV("b" :> IntV(1))) @@ ("b" :> ListV(<<1>>)))>>
    /\ pc = "done"
    /\ result = raw_dicts[1]

(***************************************************************************)
(* Properties of field-group resolution                                    *)
(***************************************************************************)
MaxDepth == 3
SchemaPaths == UNION {[1..n -> Keys] : n \in 1..MaxDepth}

\* the position of the field in the record type's declaration, 0 when the
\* type declares no such field
FieldIndex(type, name) ==
    IF \E i \in 1..Len(type.fields) : type.fields[i].name = name
    THEN CHOOSE i \in 1..Len(type.fields) : type.fields[i].name = name
    ELSE 0

\* the path names a field of the target type
RECURSIVE Declared(_, _)
Declared(type, parts) ==
    \/ parts = <<>>
    \/ /\ FieldIndex(type, Head(parts)) > 0
       /\ Declared(type.fields[FieldIndex(type, Head(parts))].type, Tail(parts))

RECURSIVE TypeOf(_, _)
TypeOf(type, parts) ==
    IF parts = <<>> THEN type
    ELSE TypeOf(type.fields[FieldIndex(type, Head(parts))].type, Tail(parts))

IsRecord(p) == Declared(dataclass_, p) /\ TypeOf(dataclass_, p).dc
IsPrefix(p, q) == Len(p) <= Len(q) /\ SubSeq(q, 1, Len(p)) = p

\* what a declared path stands for: the leaves below it when it names a
\* nested record, itself otherwise
LeavesOf(p) ==
    IF IsRecord(p)
    THEN {q \in SchemaPaths : IsPrefix(p, q) /\ Declared(dataclass_, q) /\ ~TypeOf(dataclass_, q).dc}
    ELSE {p}

\* q1 is declared before q2: at the first segment where they part, q1's
\* field comes first in the record type they share
DeclaredBefore(q1, q2) ==
    \E n \in 1..Len(q1) :
        /\ n <= Len(q2)
        /\ SubSeq(q1, 1, n - 1) = SubSeq(q2, 1, n - 1)
        /\ q1[n] # q2[n]
        /\ LET shared == TypeOf(dataclass_, SubSeq(q1, 1, n - 1))
           IN  FieldIndex(shared, q1[n]) < FieldIndex(shared, q2[n])

InDeclarationOrder(S) ==
    CHOOSE s \in [1..Cardinality(S) -> S] :
        \A i, j \in 1..Cardinality(S) : i < j => DeclaredBefore(s[i], s[j])

RECURSIVE ExpectedGroup(_)
ExpectedGroup(fields) ==
    IF fields = <<>> THEN <<>>
    ELSE InDeclarationOrder(LeavesOf(Head(fields))) \o ExpectedGroup(Tail(fields))

ResolvedAsDeclared ==
    /\ Len(field_group_paths) = Len(field_groups)
    /\ \A g \in 1..Len(field_groups) : field_group_paths[g] = ExpectedGroup(field_groups[g])

\* a group declared on a nested record, of which the pending source changes
\* some leaves and not others
SubObjectPartlyChanged(g) ==
    \E i \in 1..Len(field_groups[g]) :
        LET leaves == LeavesOf(field_groups[g][i])
            source == raw_dicts[step_idx + 1]
        IN  /\ IsRecord(field_groups[g][i])
            /\ \E q \in leaves : ValueAt(source, q) # SENTINEL /\ ValueAt(source, q) # ValueAt(merged, q)
            /\ \E q \in leaves : ValueAt(source, q) = SENTINEL \/ ValueAt(source, q) = ValueAt(merged, q)

SubObjectStep ==
    \A g \in 1..Len(field_groups) :
        (ValidateAndMerge /\ SubObjectPartlyChanged(g))
            => /\ pc' = "failed"
               /\ error'.kind = "FieldGroupError"
               /\ \E n \in 1..Len(error'.errors) :
                      error'.errors[n].group_fields = ExpectedGroup(field_groups[g])

\* C17: resolving the field groups replaces every declared path that names
\* a nested record by all leaf paths below it, nested records entered in
\* turn and fields taken in declaration order, and keeps every other path;
\* so a group declared on a sub-object is violated by a source that changes
\* some of the sub-object's leaves and not the others.
C17_GroupsExpandToLeaves == []ResolvedAsDeclared /\ [][SubObjectStep]_vars

C17_Witness ==
    /\ dataclass_ = Deep
    /\ field_groups = <<<<<<"a", "a">>, <<"a", "b">>>>>>
    /\ field_group_paths = <<<<<<"a", "a", "b">>, <<"a", "a", "a">>, <<"a", "b">>>>>>
    /\ error.kind = "FieldGroupError"
    /\ error.errors[1].changed_fields = <<<<"a", "a", "a">>>>
    /\ error.errors[1].unchanged_fields = <<<<"a", "a", "b">>, <<"a", "b">>>>

(***************************************************************************)
(* Properties of source-location resolution                                *)
(***************************************************************************)
Resolved == IsRaised(location) \/ location.source_type # "none"

\* the upper-cased segments joined by the split symbol
RECURSIVE JoinedUpper(_, _)
JoinedUpper(path, split_symbols) ==
    IF path = <<>> THEN <<>>
    ELSE upper(Head(path)) \o (IF Tail(path) = <<>> THEN <<>> ELSE split_symbols \o JoinedUpper(Tail(path), split_symbols))

ExpectedVarName ==
    (IF error_ctx.prefix = None THEN <<>> ELSE error_ctx.prefix) \o JoinedUpper(error_path, error_ctx.split_symbols)

\* the path the scanner is asked for: the segments of the prefix, then the field path
PrefixExtended ==
    (IF error_ctx.prefix \in {None, <<>>} THEN <<>> ELSE split(error_ctx.prefix, <<".">>)) \o error_path

\* what the format's scanner returns for the prefix-extended path
Scanned == find_line_range(FormatOf(error_ctx.loader_type), error_content, PrefixExtended)

\* C18: resolving a source location never fails. For the kind env the
\* location holds the variable name alone: the prefix, then the upper-cased
\* segments joined by the split symbol. For a file kind it always holds the
\* file path, and a line range with an excerpt exactly when the raw text is
\* there, the path is not empty and the format's scanner returns a range
\* for the prefix-extended path.
C18_AlwaysAnAttribution ==
    Resolved =>
        /\ ~IsRaised(location)
        /\ error_ctx.loader_type = "env" =>
               location = SourceLocation("env", None, NotFound, NoLines, ExpectedVarName)
        /\ error_ctx.loader_type \in FileLoaders =>
               /\ location.source_type = error_ctx.loader_type
               /\ location.file_path = error_ctx.file_path
               /\ location.env_var_name = None
               /\ location.line_range.found <=>
                      (error_content # None /\ error_path # <<>> /\ Scanned.found)
               /\ location.line_range.found => location.line_range = Scanned
               /\ location.line_content.some <=> location.line_range.found

C18_Witness ==
    /\ Resolved
    /\ error_ctx.loader_type = "ini"
    /\ error_ctx.prefix = <<"s">>
    /\ error_path = <<<<"a">>>>
    /\ location.line_range.found
    /\ location.line_content.some

\* the lines of the .env text that set the variable: not blank, not a
\* comment, and with the variable's name before the first "="
SettingLines(lines, var_name) ==
    {i \in 1..Len(lines) :
        LET stripped == strip(lines[i])
        IN  /\ stripped # <<>>
            /\ ~startswith(stripped, {"#"})
            /\ contains(stripped, <<"=">>)
            /\ strip(partition(stripped, <<"=">>).head) = var_name}

\* the last of the indented, non-blank lines that directly follow line i
RECURSIVE ContinuationEnd(_, _)
ContinuationEnd(lines, i) ==
    IF i < Len(lines) /\ strip(lines[i + 1]) # <<>> /\ lines[i + 1][1] \in {" ", "\t"}
    THEN ContinuationEnd(lines, i + 1)
    ELSE i

\* C19: for the kind envfile the location is that of the first line, blank
\* and comment lines skipped, whose name before "=" is the synthesized
\* variable name; its range and excerpt cover that line and every indented
\* continuation line after it. Without such a line the location holds the
\* file path and the variable name and no range.
C19_EnvFileLineWithContinuations ==
    (Resolved /\ ~IsRaised(location) /\ error_ctx.loader_type = "envfile" /\ error_content # None) =>
        LET lines == splitlines(error_content)
            setting == SettingLines(lines, ExpectedVarName)
            first == CHOOSE i \in setting : \A j \in setting : i <= j
        IN  /\ location.file_path = error_ctx.file_path
            /\ location.env_var_name = ExpectedVarName
            /\ IF setting = {}
               THEN ~location.line_range.found /\ ~location.line_content.some
               ELSE /\ location.line_range = Found(LineRange(first, ContinuationEnd(lines, first)))
                    /\ location.line_content.some
                    /\ Len(location.line_content.lines) = ContinuationEnd(lines, first) - first + 1

(***************************************************************************)
(* Claims about the loading of several sources                             *)
(***************************************************************************)
Fails(i) == source_metas[i].load.kind # "ok"

EffectiveSkip(i) ==
    IF source_metas[i].skip_if_broken = "None" THEN skip_broken_sources
    ELSE source_metas[i].skip_if_broken = "True"

RECURSIVE LoadedAmong(_)
\* the trees of the sources among the first n that load, in their order
LoadedAmong(n) ==
    IF n = 0 THEN <<>>
    ELSE IF Fails(n) THEN LoadedAmong(n - 1)
    ELSE Append(LoadedAmong(n - 1), source_metas[n].load.raw)

RECURSIVE MergeOf(_)
MergeOf(dicts) ==
    IF dicts = <<>> THEN EmptyDict
    ELSE merge_step(MergeOf(SubSeq(dicts, 1, Len(dicts) - 1)), dicts[Len(dicts)], strategy, field_merge_map)

LoopEnded == loop_idx = Len(source_metas) /\ pc # "loading"
AbortedAtSource == pc = "failed" /\ loop_idx < Len(source_metas)

InOrderSkippingBroken ==
    /\ loop_idx \in 0..Len(source_metas)
    /\ raw_dicts = LoadedAmong(loop_idx)
    /\ \A i \in 1..loop_idx : Fails(i) => EffectiveSkip(i)
    /\ pc \notin {"loading", "failed"} => loop_idx = Len(source_metas)
    /\ AbortedAtSource =>
        /\ Fails(loop_idx + 1)
        /\ ~EffectiveSkip(loop_idx + 1)
        /\ error.errors = <<[source_index |-> loop_idx]>>
    /\ (LoopEnded /\ LoadedAmong(Len(source_metas)) = <<>>) =>
        /\ pc = "failed"
        /\ error.kind = "DatureConfigError"
        /\ Len(error.errors) = 1
    /\ pc = "done" =>
        /\ LoadedAmong(Len(source_metas)) # <<>>
        /\ result = MergeOf(LoadedAmong(Len(source_metas)))

BrokenSourceStep ==
    (pc = "loading" /\ loop_idx < Len(source_metas) /\ Fails(loop_idx + 1)) =>
        IF EffectiveSkip(loop_idx + 1)
        THEN pc' = "loading" /\ loop_idx' = loop_idx + 1 /\ raw_dicts' = raw_dicts
        ELSE pc' = "failed" /\ loop_idx' = loop_idx

\* C20: the sources are gone through in order; a source that fails to load
\* is skipped exactly when its effective skip flag (its own skip_if_broken
\* unless that is None, else the merge-level skip_broken_sources) is true
\* and aborts the load at that source otherwise; a load in which no source
\* loads, the empty list included, fails with a single root error; otherwise
\* the result is the merge of exactly the loaded sources in their order.
C20_BrokenSourcesSkippedByFlag == []InOrderSkippingBroken /\ [][BrokenSourceStep]_vars

C20_Witness ==
    /\ Len(source_metas) = 3
    /\ ~Fails(1) /\ Fails(2) /\ ~Fails(3)
    /\ source_metas[2].skip_if_broken = "True"
    /\ ~skip_broken_sources
    /\ source_metas[1].load.raw # source_metas[3].load.raw
    /\ strategy = "FIRST_WINS"
    /\ pc = "done"
    /\ result = MergeOf(<<source_metas[1].load.raw, source_metas[3].load.raw>>)
    /\ result # MergeOf(<<source_metas[3].load.raw, source_metas[1].load.raw>>)

\* C24: in a load that completes successfully every read of a source's raw
\* text for diagnostics was made after an error had been detected.
C24_DiagnosticReadsOnlyOnError ==
    pc = "done" => \A i \in 1..Len(diagnostic_reads) : diagnostic_reads[i].on_error

(***************************************************************************)
(* Claims about the decorated class                                        *)
(***************************************************************************)
ExplicitFields(made) ==
    {f \in {"a", "b"} : made.kwargs[f] # 0} \cup (IF made.args # <<>> THEN {"a"} ELSE {})

\* the instance has the explicit arguments where given and data elsewhere
BuiltFrom(made, data) ==
    \A f \in {"a", "b"} : made.self[f] = (IF f \in ExplicitFields(made) THEN Explicit ELSE data[f])

ConstructionReturns == calls # <<>> /\ calls' = <<>> /\ ~instance'.raised
OutermostNewInit == Len(calls) = 1 /\ ~raising /\ Top.pc = "new_init"

CachedStep ==
    /\ (patch_ctx.cache /\ first_loaded # NoData) =>
          /\ loads' = loads
          /\ first_loaded' = first_loaded
          /\ patch_ctx'.cached_data = first_loaded
    /\ (patch_ctx.cache /\ ConstructionReturns) => BuiltFrom(instance', first_loaded')

UncachedStep ==
    ~patch_ctx.cache =>
        /\ OutermostNewInit => calls'[1].pc = "load_and_merge"
        /\ (~raising /\ calls # <<>> /\ Top.pc = "load_and_merge") => loads' = loads + 1
        /\ ConstructionReturns => BuiltFrom(instance', DataOf(file_))

\* C21: with cache enabled the sources are not loaded again after the first
\* load that succeeded, and every construction that returns has the values
\* of that load except where an explicit argument was given; with cache
\* disabled every construction loads afresh and has the values the file
\* holds now, again except for explicit arguments.
C21_LoadedOnceWhenCached == [][CachedStep /\ UncachedStep]_vars

C21_Witness ==
    /\ patch_ctx.cache
    /\ calls = <<>>
    /\ constructions = 2
    /\ loads = 1
    /\ first_loaded = DataOf(1)
    /\ file_ = 2
    /\ ~instance.raised
    /\ instance.self = [a |-> 1, b |-> Explicit]

NothingStoredByFailedLoad ==
    /\ patch_ctx.cached_data # NoData => (patch_ctx.cache /\ patch_ctx.cached_data = first_loaded)
    /\ first_loaded \in {NoData} \cup {DataOf(f) : f \in Files \ {Broken}}

LoadAgainStep ==
    /\ (~raising /\ raising' /\ Top.pc = "load_and_merge") => patch_ctx'.cached_data = patch_ctx.cached_data
    /\ (OutermostNewInit /\ first_loaded = NoData) => calls'[1].pc = "load_and_merge"

\* C30: whenever no construction is in progress the loading and validating
\* flags are both false, after a construction that returned as after one
\* that raised; a load that raises stores nothing in the cache, so the next
\* construction loads again.
C30_FlagsResetAndNoFailedCache ==
    /\ [](calls = <<>> => (~patch_ctx.loading /\ ~patch_ctx.validating))
    /\ []NothingStoredByFailedLoad
    /\ [][LoadAgainStep]_vars

C30_Witness ==
    /\ patch_ctx.cache
    /\ calls = <<>>
    /\ instance.raised
    /\ constructions = 2
    /\ loads = 2
    /\ patch_ctx.cached_data = NoData
    /\ ~patch_ctx.loading /\ ~patch_ctx.validating

(***************************************************************************)
(* Claims about the steps of the structural scan                           *)
(***************************************************************************)
ScanReturned == format # "none" /\ ~cursor.running /\ (located.found \/ cursor.pos >= Len(content))

\* the stepped loop returns what the call returns
SteppedAsWhole == ScanReturned => located = char_find_line_range(format, content, target_path)

\* A second reading of the text before the cursor, by counting commas: per
\* open bracket, whether it is an array, how many commas stand directly in
\* it and whether a value has begun since the last of them.
Bracket(is_array) == [is_array |-> is_array, commas |-> 0, pending |-> FALSE]

Begun(frames) ==
    IF frames = <<>> THEN frames ELSE [frames EXCEPT ![Len(frames)].pending = TRUE]

\* the reading after one more character c, the next one being ahead; a
\* reading is the mode and the open brackets
Reading(mode, frames) == [mode |-> mode, frames |-> frames]

WalkChar(fmt, c, ahead, r) ==
    IF r.mode = "code"
    THEN IF c = "\"" THEN Reading("double", Begun(r.frames))
         ELSE IF fmt = "json5" /\ c = "'" THEN Reading("single", Begun(r.frames))
         ELSE IF fmt = "json5" /\ c = "/" /\ ahead = "/" THEN Reading("line", r.frames)
         ELSE IF fmt = "json5" /\ c = "/" /\ ahead = "*" THEN Reading("block opens", r.frames)
         ELSE IF c \in {" ", "\t", "\r", "\n"} THEN r
         ELSE IF c = ","
         THEN Reading("code",
                  IF r.frames = <<>> THEN r.frames
                  ELSE [r.frames EXCEPT ![Len(r.frames)].commas = @ + 1, ![Len(r.frames)].pending = FALSE])
         ELSE IF c \in {"[", "{"} THEN Reading("code", Append(Begun(r.frames), Bracket(c = "[")))
         ELSE IF c \in {"]", "}"}
         THEN Reading("code", IF r.frames = <<>> THEN r.frames ELSE SubSeq(r.frames, 1, Len(r.frames) - 1))
         ELSE Reading("code", Begun(r.frames))
    ELSE IF r.mode \in {"double", "single"}
    THEN IF c = "\\" THEN Reading(IF r.mode = "double" THEN "double escape" ELSE "single escape", r.frames)
         ELSE IF (r.mode = "double" /\ c = "\"") \/ (r.mode = "single" /\ c = "'") THEN Reading("code", r.frames)
         ELSE r
    ELSE IF r.mode = "double escape" THEN Reading("double", r.frames)
    ELSE IF r.mode = "single escape" THEN Reading("single", r.frames)
    ELSE IF r.mode = "line" THEN (IF c = "\n" THEN Reading("code", r.frames) ELSE r)
    ELSE IF r.mode = "block opens" THEN Reading("block", r.frames)
    ELSE IF r.mode = "block closes" THEN Reading("code", r.frames)
    ELSE IF c = "*" /\ ahead = "/" THEN Reading("block closes", r.frames)
    ELSE r

\* the reading after the characters lo..hi of s, halving the stretch; the
\* reading so far is looked at first, so that it is worked out before the
\* stretch is entered
RECURSIVE WalkOver(_, _, _, _, _)
WalkOver(s, fmt, lo, hi, r) ==
    IF lo > hi \/ r.mode = "" THEN r
    ELSE IF lo = hi THEN WalkChar(fmt, s[lo], IF lo < Len(s) THEN s[lo + 1] ELSE "", r)
    ELSE WalkOver(s, fmt, (lo + hi) \div 2 + 1, hi, WalkOver(s, fmt, lo, (lo + hi) \div 2, r))

Walk(s, fmt) == WalkOver(s, fmt, 1, Len(s), Reading("code", <<>>)).frames

Before(s, pos) == SubSeq(s, 1, IF pos < Len(s) THEN pos ELSE Len(s))
ValuesBegun(frame) == frame.commas + (IF frame.pending THEN 1 ELSE 0)

Agrees(stack, brackets) ==
    /\ Len(stack) = Len(brackets)
    /\ \A n \in 1..Len(brackets) :
          /\ stack[n].is_array = brackets[n].is_array
          /\ brackets[n].is_array => stack[n].array_index = ValuesBegun(brackets[n]) - 1

WellFormed == \A i \in 1..Len(layout) : ~layout[i].malformed

IndexCountsValues ==
    (cursor.running /\ WellFormed) => Agrees(cursor.stack, Walk(Before(content, cursor.pos), format))

HasIndex(path) == \E i \in 1..Len(path) : path[i] # <<>> /\ \A j \in 1..Len(path[i]) : path[i][j] \in Digits

KeyInElementFound ==
    (/\ ScanReturned
     /\ WellFormed
     /\ \E i \in 1..Len(layout) : \E key \in layout[i].keys : key.path = target_path /\ HasIndex(key.path))
        => located.found

RECURSIVE Newlines(_)
Newlines(s) == IF s = <<>> THEN 0 ELSE (IF Head(s) = "\n" THEN 1 ELSE 0) + Newlines(Tail(s))

\* C27: at every step of a structural scan the line counter is 1 plus the
\* number of newline characters of the text before the cursor.
C27_LineCounterCountsNewlines ==
    cursor.running => cursor.line = 1 + Newlines(Before(content, cursor.pos))

Advances == cursor.running => (cursor'.pos > cursor.pos \/ ~cursor'.running)

\* C29: every pass through the loop of a structural scan moves the cursor
\* forward or returns, and the scan returns in the end.
C29_ScanTerminates == [][Advances]_vars /\ (cursor.running ~> ScanReturned)

C29_Witness ==
    /\ ScanReturned
    /\ ~located.found
    /\ cursor.pos >= Len(content)
    /\ \E i \in 1..Len(layout) : layout[i].malformed

(***************************************************************************)
(* Claims about the merge over objects                                     *)
(***************************************************************************)
\* the merge over objects gives the tree the merge over values gives, and
\* fails where that one fails
HeapAsValues ==
    /\ pc \in {"loaded", "merging"} => (merged = FoldTo(step_idx) /\ merged = Deref(heap, merged_ref))
    /\ (pc = "failed" /\ error.kind = "TypeError") => IsTypeError(FoldTo(step_idx + 1))

\* every object of the source trees is what it was when the load ended
SourcesIntact ==
    /\ SubSeq(heap, 1, Len(loaded_heap)) = loaded_heap
    /\ \A i \in 1..Len(raw_refs) : Deref(heap, raw_refs[i]) = raw_dicts[i]

\* a step changes no object that was there before it: it only adds objects
StepStoresIntoNewObjectsOnly ==
    /\ Len(heap') >= Len(heap)
    /\ \A a \in 1..Len(heap) : heap'[a] = heap[a]

\* C25: merging, the list strategies and conflict detection modify none of
\* their inputs: after any number of merge steps every source tree, its
\* nested maps and lists included, is what it was before the load, and a
\* step leaves the accumulated tree it was handed as it was.
C25_InputsNeverModified == []SourcesIntact /\ [][StepStoresIntoNewObjectsOnly]_vars

\* two sources merged, the accumulated tree holding a subtree of a source by
\* reference and a map the merge built itself
C25_Witness ==
    /\ pc = "merging"
    /\ step_idx >= 2
    /\ \E key \in DOMAIN heap[merged_ref].m : heap[merged_ref].m[key] <= Len(loaded_heap)
    /\ \E key \in DOMAIN heap[merged_ref].m :
        /\ heap[merged_ref].m[key] > Len(loaded_heap)
        /\ heap[heap[merged_ref].m[key]].k \in {"dict", "list"}
====
